---- MODULE Spec2Model ----
(***************************************************************************)
(* Log dashboard server (server.js): the file-per-stream Log Store under   *)
(* log/, the retention sweep cleanupOldLogs, the in-memory index allLogs   *)
(* and the HTTP handlers that read and change them; the bodies of save     *)
(* requests in flight; and the Event Queue of the browser client           *)
(* (logClient.js).                                                         *)
(*                                                                         *)
(* Time is in milliseconds since the epoch, as in Date.getTime().  The     *)
(* model's clock starts ten days after the epoch so that every instant     *)
(* fits the checker's integers; the code only ever compares differences.   *)
(***************************************************************************)
EXTENDS Integers, Sequences, FiniteSets, TLC

VARIABLES
    pc,            \* "boot" before the module's top-level code ran, then "serving"
    now,           \* the clock, new Date().getTime()
    disk,          \* log/: file name (sequence of characters) -> parsed content
    allLogs,       \* the in-memory index
    nextSweepAt,   \* due time of the setInterval callback
    last,          \* the request handled last and its response
    lastSweep,     \* history: the cleanupOldLogs run of the request handled last
    conns,         \* save requests in flight: the body parseBody has collected
    batchSize,     \* client: the configured batchSize
    queue,         \* client: the entries queued and not yet handed over
    timer,         \* client: the batch timer
    clock,         \* client: the browser's clock, milliseconds
    transport,     \* client: the batches handed to the transport, in order
    calls,         \* client history: the calls made so far
    dashboard      \* dashboard page: its allLogs and the responses under way

serverVars == <<pc, now, disk, allLogs, nextSweepAt, last, lastSweep>>

clientVars == <<batchSize, queue, timer, clock, transport, calls>>

vars == <<serverVars, conns, clientVars, dashboard>>

----------------------------------------------------------------------------
(* Bounds of the model *)

MaxLen == 3        \* longest array of entries in a pre-existing file
MaxIndex == 3      \* saves and uploads are cut off once the index is this long
MaxFiles == 2      \* uploads are cut off once log/ holds this many files
MaxSeconds == 1    \* one-second clock steps per day
MaxChunks == 2     \* 'data' events per request body
MaxBatchSize == 3  \* largest configured batchSize of the client
MaxEnqueued == 3   \* entries a client enqueues
MaxFlushes == 2    \* explicit flushQueue() calls of a client
MaxTimeouts == 1   \* the client's clock stops after this many batch timeouts
MaxDays == 1       \* firings of the 24-hour timer
MaxName == 2       \* longest file name built from the path characters

Now0 == 864000000  \* the instant the process starts (day 10)

----------------------------------------------------------------------------
(* Program constants *)

SevenDaysMs == 7 * 24 * 60 * 60 * 1000
DayMs == 24 * 60 * 60 * 1000
SecondMs == 1000

----------------------------------------------------------------------------
(* Characters and file names *)

Lower == {"a","b","c","d","e","f","g","h","i","j","k","l","m",
          "n","o","p","q","r","s","t","u","v","w","x","y","z"}
Upper == {"A","B","C","D","E","F","G","H","I","J","K","L","M",
          "N","O","P","Q","R","S","T","U","V","W","X","Y","Z"}
DigitChars == <<"0","1","2","3","4","5","6","7","8","9">>
DigitSet == {DigitChars[i] : i \in 1..10}

\* faulty variant: the class also lets the dot and the slash through
SafeCharsWithPathChars == Lower \cup Upper \cup DigitSet \cup {"_", "-", ".", "/"}

\* the class [a-zA-Z0-9_-] of the sanitizing regular expression
SafeChars == Lower \cup Upper \cup DigitSet \cup {"_", "-"}

\* faulty variant: the name is used as it was sent
Unsanitized(name) == name

\* fileName.replace(/[^a-zA-Z0-9_-]/g, '_')
Sanitize(name) ==
    [i \in 1..Len(name) |-> IF name[i] \in SafeChars THEN name[i] ELSE "_"]

JsonExt == <<".", "j", "s", "o", "n">>

\* `${sanitizedFileName}.json`
JsonName(token) == token \o JsonExt

\* file.endsWith('.json')
EndsWithJson(file) ==
    /\ Len(file) >= Len(JsonExt)
    /\ SubSeq(file, Len(file) - Len(JsonExt) + 1, Len(file)) = JsonExt

LogDir == <<"/", "l", "o", "g">>

RECURSIVE SplitFrom(_, _, _, _)
\* the segments of a path between its "/" separators
SplitFrom(s, i, segment, done) ==
    IF i > Len(s) THEN Append(done, segment)
    ELSE IF s[i] = "/" THEN SplitFrom(s, i + 1, <<>>, Append(done, segment))
    ELSE SplitFrom(s, i + 1, Append(segment, s[i]), done)

RECURSIVE NormalizeFrom(_, _, _)
\* path.normalize on the segments of an absolute path: empty and "."
\* segments are dropped, ".." removes the segment before it
NormalizeFrom(segments, i, kept) ==
    IF i > Len(segments) THEN kept
    ELSE IF segments[i] = <<>> \/ segments[i] = <<".">>
         THEN NormalizeFrom(segments, i + 1, kept)
    ELSE IF segments[i] = <<".", ".">>
         THEN NormalizeFrom(segments, i + 1,
                            IF Len(kept) > 0 THEN SubSeq(kept, 1, Len(kept) - 1)
                            ELSE kept)
    ELSE NormalizeFrom(segments, i + 1, Append(kept, segments[i]))

RECURSIVE JoinFrom(_, _)
JoinFrom(segments, i) ==
    IF i > Len(segments) THEN <<>>
    ELSE <<"/">> \o segments[i] \o JoinFrom(segments, i + 1)

\* path.join(dir, file) for an absolute dir
PathJoin(dir, file) ==
    LET kept == NormalizeFrom(SplitFrom(dir \o <<"/">> \o file, 1, <<>>, <<>>), 1, <<>>)
    IN  IF Len(kept) = 0 THEN <<"/">> ELSE JoinFrom(kept, 1)

\* path.join(logDir, `${sanitizedFileName}.json`)
FilePath(token) == PathJoin(LogDir, JsonName(token))

\* filePath.startsWith(logDir)
StartsWith(s, prefix) ==
    /\ Len(s) >= Len(prefix)
    /\ SubSeq(s, 1, Len(prefix)) = prefix

RECURSIVE Digits(_)
\* the decimal digits of a natural number, as in `${Date.now()}`
Digits(n) ==
    IF n < 10 THEN <<DigitChars[n + 1]>>
    ELSE Digits(n \div 10) \o <<DigitChars[(n % 10) + 1]>>

\* `uploaded_${Date.now()}`
UploadName(t) == <<"u","p","l","o","a","d","e","d","_">> \o Digits(t)

----------------------------------------------------------------------------
(* Entries, timestamps and JSON content *)

\* the values the timestamp field of an entry takes
DateTs(t) == [k |-> "date", t |-> t]        \* a date string that parses to t
UndefinedTs == [k |-> "undefined", t |-> 0] \* field absent
NullTs == [k |-> "null", t |-> 0]           \* JSON null
GarbageTs == [k |-> "garbage", t |-> 0]     \* a string that is not a date

\* a free-text field of an entry: a string, possibly empty, or no field at all
Text(string) == [present |-> TRUE, text |-> string]
AbsentField == [present |-> FALSE, text |-> ""]

\* an entry as the client builds it; details and level play no part here
UserEntry(ts, ev, user, company) ==
    [timestamp |-> ts, event |-> ev, userName |-> user, companyId |-> company]

\* an entry of the user john_doe of the company COMP-1234
Entry(ts, ev) ==
    UserEntry(ts, ev, Text("john_doe"), Text("COMP-1234"))

\* the element null of an array, or null pushed on allLogs: it has no
\* property, and reading its timestamp throws a TypeError
NullElement == UserEntry([k |-> "none", t |-> 0], "null", AbsentField, AbsentField)

\* a JavaScript Date: Invalid Date has the time value NaN
NaNDate == [valid |-> FALSE, ms |-> 0]
ValidDate(t) == [valid |-> TRUE, ms |-> t]

\* new Date(x.timestamp)
NewDate(ts) ==
    CASE ts.k = "date" -> ValidDate(ts.t)
      [] ts.k = "null" -> ValidDate(0)
      [] OTHER -> NaNDate

\* new Date(x.timestamp || 0): undefined and null are falsy
NewDateOrZero(ts) ==
    CASE ts.k = "date" -> ValidDate(ts.t)
      [] ts.k \in {"null", "undefined"} -> ValidDate(0)
      [] OTHER -> NaNDate

\* a < b on two Dates: false as soon as one side is NaN
DateLess(a, b) == a.valid /\ b.valid /\ a.ms < b.ms

\* parsed JSON content of a file or of a request body
ArrayOf(items) == [kind |-> "array", items |-> items]
ObjectOf(e) == [kind |-> "object", items |-> <<e>>]
Malformed == [kind |-> "malformed", items |-> <<>>]   \* JSON.parse throws
NullJson == [kind |-> "null", items |-> <<>>]         \* the JSON text null
Missing == [kind |-> "missing", items |-> <<>>]       \* field absent in the body
NoContent == [kind |-> "none", items |-> <<>>]

----------------------------------------------------------------------------
(* Array.prototype.sort as Node's V8 runs it on arrays shorter than 32:    *)
(* the first run is counted (and reversed when strictly descending), the   *)
(* rest is placed by binary insertion.  A comparator result of NaN counts  *)
(* as 0.                                                                   *)

Sign(x) == IF x < 0 THEN -1 ELSE IF x > 0 THEN 1 ELSE 0

\* (a, b) => new Date(b.timestamp) - new Date(a.timestamp)
LoadCompare(a, b) ==
    LET da == NewDate(a.timestamp)
        db == NewDate(b.timestamp)
    IN  IF da.valid /\ db.valid THEN Sign(db.ms - da.ms) ELSE 0

\* (a, b) => new Date(b.timestamp || 0).getTime() - new Date(a.timestamp || 0).getTime()
SaveCompare(a, b) ==
    LET da == NewDateOrZero(a.timestamp)
        db == NewDateOrZero(b.timestamp)
    IN  IF da.valid /\ db.valid THEN Sign(db.ms - da.ms) ELSE 0

Compare(mode, a, b) ==
    IF mode = "load" THEN LoadCompare(a, b) ELSE SaveCompare(a, b)

Reverse(s) == [i \in 1..Len(s) |-> s[Len(s) + 1 - i]]

RECURSIVE RunEnd(_, _, _, _)
\* the length of the run that starts the array, idx being the next element to try
RunEnd(mode, s, desc, idx) ==
    IF idx > Len(s) THEN Len(s)
    ELSE LET order == Compare(mode, s[idx], s[idx - 1])
         IN  IF (desc /\ order >= 0) \/ (~desc /\ order < 0)
             THEN idx - 1
             ELSE RunEnd(mode, s, desc, idx + 1)

RECURSIVE BinarySearch(_, _, _, _, _)
\* where the pivot belongs among s[left..right-1]
BinarySearch(mode, s, pivot, left, right) ==
    IF left >= right THEN left
    ELSE LET mid == left + ((right - left) \div 2)
         IN  IF Compare(mode, pivot, s[mid]) < 0
             THEN BinarySearch(mode, s, pivot, left, mid)
             ELSE BinarySearch(mode, s, pivot, mid + 1, right)

RECURSIVE BinaryInsertionSort(_, _, _)
\* s[1..start-1] is sorted; places s[start..Len(s)] one by one
BinaryInsertionSort(mode, s, start) ==
    IF start > Len(s) THEN s
    ELSE LET pivot == s[start]
             left == BinarySearch(mode, s, pivot, 1, start)
             placed == SubSeq(s, 1, left - 1) \o <<pivot>>
                       \o SubSeq(s, left, start - 1)
                       \o SubSeq(s, start + 1, Len(s))
         IN  BinaryInsertionSort(mode, placed, start + 1)

\* faulty variant: the array is left in the order it was pushed
Unsorted(mode, s) == s

\* allLogs.sort(comparator) throws: with two elements or more every element
\* is handed to the comparator, which reads the timestamp of null; the
\* array is left as it was before the call
SortThrows(s) == Len(s) >= 2 /\ \E i \in 1..Len(s) : s[i] = NullElement

SortBy(mode, s) ==
    IF Len(s) < 2 THEN s
    ELSE LET desc == Compare(mode, s[2], s[1]) < 0
             run == RunEnd(mode, s, desc, 3)
             made == IF desc
                     THEN Reverse(SubSeq(s, 1, run)) \o SubSeq(s, run + 1, Len(s))
                     ELSE s
         IN  BinaryInsertionSort(mode, made, run + 1)

----------------------------------------------------------------------------
(* The file system under log/ *)

EmptyDisk == [f \in {} |-> NoContent]

\* fs.existsSync(filePath)
Exists(d, file) == file \in DOMAIN d

\* faulty variant: the write appends to what the file holds instead of replacing it
WriteFileMerged(d, file, content) ==
    [f \in DOMAIN d \cup {file} |->
        IF f # file THEN d[f]
        ELSE IF f \in DOMAIN d
             THEN [content EXCEPT !.items = d[f].items \o content.items]
             ELSE content]

\* fs.writeFileSync(filePath, JSON.stringify(content, null, 2))
WriteFile(d, file, content) ==
    [f \in DOMAIN d \cup {file} |-> IF f = file THEN content ELSE d[f]]

\* faulty variant: the removal also empties every other file of the directory
UnlinkTruncating(d, file) ==
    [f \in DOMAIN d \ {file} |-> [d[f] EXCEPT !.items = <<>>]]

\* faulty variant: the removal drops the first entry and keeps the file
UnlinkFirstEntry(d, file) ==
    [f \in DOMAIN d |->
        IF f = file /\ Len(d[f].items) > 0
        THEN [d[f] EXCEPT !.items = Tail(@)]
        ELSE d[f]]

\* fs.unlinkSync(filePath)
Unlink(d, file) == [f \in DOMAIN d \ {file} |-> d[f]]

RECURSIVE OrdersOf(_)
\* the sequences that hold every element of a set once
OrdersOf(files) ==
    IF files = {} THEN {<<>>}
    ELSE UNION {{<<f>> \o rest : rest \in OrdersOf(files \ {f})} : f \in files}

\* fs.readdirSync(logDir): every file once, in an order the platform chooses
Enumerations(d) == OrdersOf(DOMAIN d)

----------------------------------------------------------------------------
(* cleanupOldLogs *)

\* faulty variant: the window computed in seconds, the factor 1000 forgotten
SevenDaysAgoInSeconds(t) == ValidDate(t - 7 * 24 * 60 * 60)

\* const sevenDaysAgo = new Date(now.getTime() - 7 * 24 * 60 * 60 * 1000)
SevenDaysAgo(t) == ValidDate(t - SevenDaysMs)

\* let logArray = Array.isArray(logs) ? logs : [logs]
LogArray(content) == content.items

RECURSIVE ReduceOldest(_, _, _)
\* logArray.reduce((oldest, current) => currentTime < oldestTime ? current : oldest)
\* with no initial value: the first element starts as oldest
ReduceOldest(items, i, oldest) ==
    IF i > Len(items) THEN oldest
    ELSE ReduceOldest(items, i + 1,
            IF DateLess(NewDate(items[i].timestamp), NewDate(oldest.timestamp))
            THEN items[i] ELSE oldest)

\* faulty variant: the first entry of the file is taken for the oldest
FirstLog(items) == items[1]

OldestLog(items) == ReduceOldest(items, 2, items[1])

\* the per-file try block throws: readFileSync or JSON.parse fails, or the
\* content is null, whose timestamp cannot be read; the catch logs the error
Throws(content) ==
    \/ content.kind \notin {"array", "object"}
    \/ \E i \in 1..Len(content.items) : content.items[i] = NullElement

\* faulty variant: a file with no entry counts as expired
SweepDeletesEmpty(content, t) ==
    /\ content.kind \in {"array", "object"}
    /\ \/ Len(LogArray(content)) = 0
       \/ DateLess(NewDate(OldestLog(LogArray(content)).timestamp), SevenDaysAgo(t))

\* faulty variant: the comparison with the cutoff is not strict
SweepDeletesAtCutoff(content, t) ==
    /\ content.kind \in {"array", "object"}
    /\ Len(LogArray(content)) > 0
    /\ LET oldestTime == NewDate(OldestLog(LogArray(content)).timestamp)
       IN  oldestTime.valid /\ oldestTime.ms <= SevenDaysAgo(t).ms

\* whether the sweep at time t unlinks a file of this content; a file that
\* does not parse throws into the per-file catch and is left alone
SweepDeletes(content, t) ==
    /\ content.kind \in {"array", "object"}
    /\ Len(LogArray(content)) > 0
    /\ DateLess(NewDate(OldestLog(LogArray(content)).timestamp), SevenDaysAgo(t))

\* what cleanupOldLogs has done so far
Swept(d, deletedCount, deletedFiles) ==
    [disk |-> d, deletedCount |-> deletedCount, deletedFiles |-> deletedFiles]

RECURSIVE CleanupFromAborting(_, _, _, _, _, _)
\* faulty variant: no catch inside the loop, the first file that throws ends
\* the sweep
CleanupFromAborting(d, t, files, i, deletedCount, deletedFiles) ==
    IF i > Len(files) THEN Swept(d, deletedCount, deletedFiles)
    ELSE IF EndsWithJson(files[i]) /\ Throws(d[files[i]])
         THEN Swept(d, deletedCount, deletedFiles)
    ELSE IF EndsWithJson(files[i]) /\ SweepDeletes(d[files[i]], t)
         THEN CleanupFromAborting(Unlink(d, files[i]), t, files, i + 1,
                                  deletedCount + 1, Append(deletedFiles, files[i]))
         ELSE CleanupFromAborting(d, t, files, i + 1, deletedCount, deletedFiles)

RECURSIVE CleanupFromCountingAll(_, _, _, _, _, _)
\* faulty variant: deletedCount++ placed outside the test of the oldest time,
\* every file with entries is counted
CleanupFromCountingAll(d, t, files, i, deletedCount, deletedFiles) ==
    IF i > Len(files) THEN Swept(d, deletedCount, deletedFiles)
    ELSE IF EndsWithJson(files[i]) /\ SweepDeletes(d[files[i]], t)
         THEN CleanupFromCountingAll(Unlink(d, files[i]), t, files, i + 1,
                                     deletedCount + 1, Append(deletedFiles, files[i]))
    ELSE IF EndsWithJson(files[i]) /\ ~Throws(d[files[i]])
            /\ Len(LogArray(d[files[i]])) > 0
         THEN CleanupFromCountingAll(d, t, files, i + 1, deletedCount + 1,
                                     deletedFiles)
         ELSE CleanupFromCountingAll(d, t, files, i + 1, deletedCount, deletedFiles)

RECURSIVE CleanupFromSkippingNext(_, _, _, _, _, _)
\* faulty variant: the loop walks a list it shortens on every removal, the
\* file after a deleted one is not examined
CleanupFromSkippingNext(d, t, files, i, deletedCount, deletedFiles) ==
    IF i > Len(files) THEN Swept(d, deletedCount, deletedFiles)
    ELSE IF EndsWithJson(files[i]) /\ ~Throws(d[files[i]])
            /\ SweepDeletes(d[files[i]], t)
         THEN CleanupFromSkippingNext(Unlink(d, files[i]), t, files, i + 2,
                                      deletedCount + 1, Append(deletedFiles, files[i]))
         ELSE CleanupFromSkippingNext(d, t, files, i + 1, deletedCount, deletedFiles)

RECURSIVE CleanupFrom(_, _, _, _, _, _)
\* files.forEach(file => ...) from the i-th enumerated file on
CleanupFrom(d, t, files, i, deletedCount, deletedFiles) ==
    IF i > Len(files) THEN Swept(d, deletedCount, deletedFiles)
    ELSE IF EndsWithJson(files[i]) /\ ~Throws(d[files[i]])
            /\ SweepDeletes(d[files[i]], t)
         THEN CleanupFrom(Unlink(d, files[i]), t, files, i + 1,
                          deletedCount + 1, Append(deletedFiles, files[i]))
         ELSE CleanupFrom(d, t, files, i + 1, deletedCount, deletedFiles)

\* cleanupOldLogs(): the disk it leaves and the summary it returns
CleanupOldLogs(d, t, files) == CleanupFrom(d, t, files, 1, 0, <<>>)

\* faulty variant: cleanupOldLogs returns before it reads the directory
SweepsSkipped(d, t) == {Swept(d, 0, <<>>)}

\* the outcomes of cleanupOldLogs() over the orders readdirSync may answer
Sweeps(d, t) == {CleanupOldLogs(d, t, files) : files \in Enumerations(d)}

----------------------------------------------------------------------------
(* loadLogsFromFiles *)

\* what one file adds to allLogs: an array is spread, an object is pushed,
\* a file that does not parse is skipped
Pushed(content) ==
    IF content.kind \in {"array", "object"} THEN content.items ELSE <<>>

RECURSIVE LoadFrom(_, _, _, _)
LoadFrom(d, files, i, acc) ==
    IF i > Len(files) THEN acc
    ELSE LoadFrom(d, files, i + 1,
            IF EndsWithJson(files[i]) THEN acc \o Pushed(d[files[i]]) ELSE acc)

\* loadLogsFromFiles(): the new value of allLogs; a sort that throws ends in
\* the outer catch, allLogs as pushed
LoadLogsFromFiles(d, files) ==
    LET pushed == LoadFrom(d, files, 1, <<>>)
    IN  IF SortThrows(pushed) THEN pushed ELSE SortBy("load", pushed)

\* faulty variant: the reload is left out, the index stays as it was
StaleLoads(d) == {allLogs}

\* the outcomes of loadLogsFromFiles() over the orders readdirSync may answer
Loads(d) == {LoadLogsFromFiles(d, files) : files \in Enumerations(d)}

----------------------------------------------------------------------------
(* The index against the files *)

RangeOf(s) == {s[i] : i \in 1..Len(s)}

\* how many times e occurs in the sequence s
CountIn(s, e) == Cardinality({i \in 1..Len(s) : s[i] = e})

\* the entries of a file, in file order; none for a file that does not parse
ItemsOf(content) ==
    IF content.kind \in {"array", "object"} THEN content.items ELSE <<>>

\* the entries of every file of d, file after file
DiskEntries(d) == LoadFrom(d, CHOOSE files \in Enumerations(d) : TRUE, 1, <<>>)

\* the index and the files hold the same entries, each as many times
IndexMatchesDisk ==
    \A e \in RangeOf(allLogs) \cup RangeOf(DiskEntries(disk)) :
        CountIn(allLogs, e) = CountIn(DiskEntries(disk), e)

----------------------------------------------------------------------------
(* Requests and responses *)

NoResponse ==
    [op |-> "none", name |-> <<>>, data |-> NoContent, status |-> 0,
     success |-> FALSE, error |-> "", fileName |-> <<>>,
     content |-> NoContent, logs |-> <<>>, files |-> {},
     deletedCount |-> 0, deletedFiles |-> <<>>,
     replaced |-> NoContent,   \* history: what a save found in the file it wrote
     path |-> <<>>,            \* history: the path the handler gave to fs
     stale |-> FALSE,          \* history: index and files differed on arrival
     again |-> FALSE]          \* history: repeats the DELETE answered just before

NoSweep == [ran |-> FALSE, at |-> 0, before |-> EmptyDisk, deleted |-> <<>>]

SweepOf(t, before, result) ==
    [ran |-> TRUE, at |-> t, before |-> before, deleted |-> result.deletedFiles]

\* the raw string of a body whose logData is a string
StringArrayOf(items) == [kind |-> "stringArray", items |-> items]
StringObjectOf(e) == [kind |-> "stringObject", items |-> <<e>>]
StringRaw == [kind |-> "stringRaw", items |-> <<>>]
StringNull == [kind |-> "stringNull", items |-> <<>>]   \* the string 'null'

\* { raw: logData }: an object with neither timestamp nor event
RawEntry == UserEntry(UndefinedTs, "raw", AbsentField, AbsentField)

\* let dataToSave = logData; a string is parsed, or wrapped when it does not parse
DataToSave(logData) ==
    CASE logData.kind = "stringArray" -> ArrayOf(logData.items)
      [] logData.kind = "stringObject" -> ObjectOf(logData.items[1])
      [] logData.kind = "stringRaw" -> ObjectOf(RawEntry)
      [] logData.kind = "stringNull" -> NullJson
      [] OTHER -> logData

ListName == <<"l", "i", "s", "t">>

----------------------------------------------------------------------------
(* The module's top-level code and the timer *)

\* loadLogsFromFiles(); cleanupOldLogs(); setInterval(..., 24h); server.listen
Startup ==
    /\ pc = "boot"
    /\ \E run \in {[logs |-> LoadLogsFromFiles(disk, files),
                     swept |-> CleanupOldLogs(disk, now, files)] :
                        files \in Enumerations(disk)} :
          /\ allLogs' = run.logs
          /\ disk' = run.swept.disk
          /\ lastSweep' = SweepOf(now, disk, run.swept)
    /\ nextSweepAt' = now + DayMs
    /\ pc' = "serving"
    /\ last' = [NoResponse EXCEPT !.op = "startup"]
    /\ UNCHANGED now

\* faulty variant: the callback sweeps and does not reload the index
ScheduledWithoutReload ==
    /\ pc = "serving"
    /\ now >= nextSweepAt
    /\ \E swept \in Sweeps(disk, now) :
          /\ disk' = swept.disk
          /\ lastSweep' = SweepOf(now, disk, swept)
    /\ nextSweepAt' = now + DayMs
    /\ last' = [NoResponse EXCEPT !.op = "scheduled",
                                  !.stale = ~IndexMatchesDisk]
    /\ UNCHANGED <<pc, now, allLogs>>

\* the setInterval callback: cleanupOldLogs(); loadLogsFromFiles()
Scheduled ==
    /\ pc = "serving"
    /\ now >= nextSweepAt
    /\ \E swept \in Sweeps(disk, now) :
          /\ disk' = swept.disk
          /\ lastSweep' = SweepOf(now, disk, swept)
          /\ allLogs' \in Loads(swept.disk)
    /\ nextSweepAt' = now + DayMs
    /\ last' = [NoResponse EXCEPT !.op = "scheduled",
                                  !.stale = ~IndexMatchesDisk]
    /\ UNCHANGED <<pc, now>>

\* the clock moves on by a second
TickSecond ==
    /\ pc = "serving"
    /\ (now - Now0) % DayMs < MaxSeconds * SecondMs
    /\ now + SecondMs <= nextSweepAt
    /\ now' = now + SecondMs
    /\ UNCHANGED <<pc, disk, allLogs, nextSweepAt, last, lastSweep>>

\* the clock moves on until the 24-hour timer is due
TickToTimer ==
    /\ pc = "serving"
    /\ now < nextSweepAt
    /\ (nextSweepAt - Now0) \div DayMs <= MaxDays
    /\ now' = nextSweepAt
    /\ UNCHANGED <<pc, disk, allLogs, nextSweepAt, last, lastSweep>>

----------------------------------------------------------------------------
(* The request handlers *)

\* the response of GET /api/logs: JSON.stringify(allLogs)
GetAllResponse(logs) ==
    [NoResponse EXCEPT !.op = "getAll", !.status = 200, !.logs = logs]

\* GET /api/logs
GetAll ==
    /\ pc = "serving"
    /\ last' = GetAllResponse(allLogs)
    /\ lastSweep' = NoSweep
    /\ UNCHANGED <<pc, now, disk, allLogs, nextSweepAt>>

\* the response of GET /api/logs/list
ListResponse(d) ==
    [NoResponse EXCEPT !.op = "list", !.status = 200, !.success = TRUE,
                       !.files = {f \in DOMAIN d : EndsWithJson(f)}]

\* faulty variant: no listing route before the file route, 'list' is read
\* like any other name
GetFileResponseListAsFile(d, name) ==
    LET file == JsonName(Sanitize(name))
        answer == [NoResponse EXCEPT !.op = "getFile", !.name = name]
    IN  IF name = <<>>
        THEN [answer EXCEPT !.status = 404, !.error = "Not found"]
        ELSE IF ~Exists(d, file)
        THEN [answer EXCEPT !.status = 404, !.error = "Log file not found",
                            !.path = FilePath(Sanitize(name))]
        ELSE [answer EXCEPT !.status = 200, !.content = d[file],
                            !.path = FilePath(Sanitize(name))]

\* the response of GET /api/logs/<name>: the listing route is matched first,
\* an empty name falls through to the final 404
GetFileResponse(d, name) ==
    LET file == JsonName(Sanitize(name))
        answer == [NoResponse EXCEPT !.op = "getFile", !.name = name]
    IN  IF name = ListName THEN [ListResponse(d) EXCEPT !.name = name]
        ELSE IF name = <<>>
        THEN [answer EXCEPT !.status = 404, !.error = "Not found"]
        ELSE IF ~StartsWith(FilePath(Sanitize(name)), LogDir)
        THEN [answer EXCEPT !.status = 403, !.error = "Access denied"]
        ELSE IF ~Exists(d, file)
        THEN [answer EXCEPT !.status = 404, !.error = "Log file not found",
                            !.path = FilePath(Sanitize(name))]
        ELSE [answer EXCEPT !.status = 200, !.content = d[file],
                            !.path = FilePath(Sanitize(name))]

\* GET /api/logs/list and GET /api/logs/:fileName
GetFile(name) ==
    /\ pc = "serving"
    /\ last' = GetFileResponse(disk, name)
    /\ lastSweep' = NoSweep
    /\ UNCHANGED <<pc, now, disk, allLogs, nextSweepAt>>

\* what the save handler pushes on allLogs
SavePushed(dataToSave) ==
    IF dataToSave.kind = "null" THEN <<NullElement>> ELSE dataToSave.items

\* faulty variant: only the first character of the name makes the file name
SaveFileFirstChar(fileName) == JsonName(SubSeq(Sanitize(fileName), 1, 1))

\* faulty variant: the file name is used as sent, without sanitizing
SaveFileAsSent(fileName) == JsonName(fileName)

\* the file the save handler writes
SaveFile(fileName) == JsonName(Sanitize(fileName))

\* faulty variant: the test of fileName is left out, a body without it is
\* written to the file named '.json'
SaveWithoutNameCheck(fileName, logData) ==
    /\ pc = "serving"
    /\ IF logData.kind = "missing"
       THEN /\ last' = [NoResponse EXCEPT !.op = "save", !.name = fileName,
                           !.data = logData, !.status = 400,
                           !.error = "logData is required"]
            /\ UNCHANGED <<disk, allLogs, lastSweep>>
       ELSE LET dataToSave == DataToSave(logData)
                written == WriteFile(disk, SaveFile(fileName), dataToSave)
            IN  /\ Len(allLogs) + Len(SavePushed(dataToSave)) <= MaxIndex
                /\ allLogs' = SortBy("save", allLogs \o SavePushed(dataToSave))
                /\ \E swept \in Sweeps(written, now) :
                      /\ disk' = swept.disk
                      /\ lastSweep' = SweepOf(now, written, swept)
                /\ last' = [NoResponse EXCEPT !.op = "save", !.name = fileName,
                               !.data = logData, !.status = 200, !.success = TRUE,
                               !.fileName = SaveFile(fileName)]
    /\ UNCHANGED <<pc, now, nextSweepAt>>

\* POST /api/logs/save with body { logData, fileName }
Save(fileName, logData) ==
    /\ pc = "serving"
    /\ IF logData.kind \in {"missing", "null"}
       THEN /\ last' = [NoResponse EXCEPT !.op = "save", !.name = fileName,
                           !.data = logData, !.status = 400,
                           !.error = "logData is required"]
            /\ UNCHANGED <<disk, allLogs, lastSweep>>
       ELSE IF fileName = <<>>
       THEN /\ last' = [NoResponse EXCEPT !.op = "save", !.name = fileName,
                           !.data = logData, !.status = 400,
                           !.error = "fileName is required"]
            /\ UNCHANGED <<disk, allLogs, lastSweep>>
       ELSE IF SortThrows(allLogs \o SavePushed(DataToSave(logData)))
       THEN \* the file is written and the entries pushed when the sort
            \* throws into the server's catch block
            /\ Len(allLogs) + Len(SavePushed(DataToSave(logData))) <= MaxIndex
            /\ disk' = WriteFile(disk, SaveFile(fileName), DataToSave(logData))
            /\ allLogs' = allLogs \o SavePushed(DataToSave(logData))
            /\ lastSweep' = NoSweep
            /\ last' = [NoResponse EXCEPT !.op = "save", !.name = fileName,
                           !.data = logData, !.status = 500,
                           !.error = "Internal server error",
                           !.path = PathJoin(LogDir, SaveFile(fileName)),
                           !.replaced =
                               IF Exists(disk, SaveFile(fileName))
                               THEN disk[SaveFile(fileName)] ELSE NoContent]
       ELSE LET dataToSave == DataToSave(logData)
                written == WriteFile(disk, SaveFile(fileName), dataToSave)
            IN  /\ Len(allLogs) + Len(SavePushed(dataToSave)) <= MaxIndex
                /\ allLogs' = SortBy("save", allLogs \o SavePushed(dataToSave))
                /\ \E swept \in Sweeps(written, now) :
                      /\ disk' = swept.disk
                      /\ lastSweep' = SweepOf(now, written, swept)
                /\ last' = [NoResponse EXCEPT !.op = "save", !.name = fileName,
                               !.data = logData, !.status = 200, !.success = TRUE,
                               !.fileName = SaveFile(fileName),
                               !.path = PathJoin(LogDir, SaveFile(fileName)),
                               !.replaced =
                                   IF Exists(disk, SaveFile(fileName))
                                   THEN disk[SaveFile(fileName)] ELSE NoContent]
    /\ UNCHANGED <<pc, now, nextSweepAt>>

\* faulty variant: the test of existence is left out and a missing file is
\* answered like a deleted one
DeleteIdempotent(name) ==
    LET file == JsonName(Sanitize(name))
        answer == [NoResponse EXCEPT !.op = "delete", !.name = name,
                      !.again = (last.op = "delete" /\ last.status = 200
                                 /\ last.name = name)]
    IN  /\ pc = "serving"
        /\ IF ~StartsWith(FilePath(Sanitize(name)), LogDir)
           THEN /\ last' = [answer EXCEPT !.status = 403, !.error = "Access denied"]
                /\ UNCHANGED <<disk, allLogs>>
           ELSE /\ disk' = Unlink(disk, file)
                /\ allLogs' \in Loads(Unlink(disk, file))
                /\ last' = [answer EXCEPT !.status = 200, !.success = TRUE,
                                          !.path = FilePath(Sanitize(name)),
                                          !.stale = ~IndexMatchesDisk]
        /\ lastSweep' = NoSweep
        /\ UNCHANGED <<pc, now, nextSweepAt>>

\* DELETE /api/logs/:fileName
Delete(name) ==
    LET file == JsonName(Sanitize(name))
        answer == [NoResponse EXCEPT !.op = "delete", !.name = name,
                      !.again = (last.op = "delete" /\ last.status = 200
                                 /\ last.name = name)]
    IN  /\ pc = "serving"
        /\ IF ~StartsWith(FilePath(Sanitize(name)), LogDir)
           THEN /\ last' = [answer EXCEPT !.status = 403, !.error = "Access denied"]
                /\ UNCHANGED <<disk, allLogs>>
           ELSE IF ~Exists(disk, file)
           THEN /\ last' = [answer EXCEPT !.status = 404,
                                          !.error = "Log file not found",
                                          !.path = FilePath(Sanitize(name))]
                /\ UNCHANGED <<disk, allLogs>>
           ELSE /\ disk' = Unlink(disk, file)
                /\ allLogs' \in Loads(Unlink(disk, file))
                /\ last' = [answer EXCEPT !.status = 200, !.success = TRUE,
                                          !.path = FilePath(Sanitize(name)),
                                          !.stale = ~IndexMatchesDisk]
        /\ lastSweep' = NoSweep
        /\ UNCHANGED <<pc, now, nextSweepAt>>

\* POST /api/logs/cleanup
Cleanup ==
    /\ pc = "serving"
    /\ \E swept \in Sweeps(disk, now) :
          /\ disk' = swept.disk
          /\ lastSweep' = SweepOf(now, disk, swept)
          /\ allLogs' \in Loads(swept.disk)
          /\ last' = [NoResponse EXCEPT !.op = "cleanup", !.status = 200,
                         !.success = TRUE,
                         !.stale = ~IndexMatchesDisk,
                         !.deletedCount = swept.deletedCount,
                         !.deletedFiles = swept.deletedFiles]
    /\ UNCHANGED <<pc, now, nextSweepAt>>

\* the file the upload handler writes
UploadFile(t) == JsonName(Sanitize(UploadName(t)))

\* faulty variant: the test of the length is left out, an empty array is
\* written to a file like any other
UploadWithoutEmptyCheck(logsData) ==
    LET answer == [NoResponse EXCEPT !.op = "upload", !.data = logsData]
        logsArray == logsData.items
    IN  /\ pc = "serving"
        /\ IF logsData.kind = "missing"
           THEN /\ last' = [answer EXCEPT !.status = 400,
                                          !.error = "logsData is required"]
                /\ UNCHANGED <<disk, allLogs>>
           ELSE /\ Len(allLogs) + Len(logsArray) <= MaxIndex
                /\ Cardinality(DOMAIN disk \cup {UploadFile(now)}) <= MaxFiles
                /\ allLogs' = SortBy("save", allLogs \o logsArray)
                /\ disk' = WriteFile(disk, UploadFile(now), ArrayOf(logsArray))
                /\ last' = [answer EXCEPT !.status = 200, !.success = TRUE,
                                          !.fileName = UploadFile(now)]
        /\ lastSweep' = NoSweep
        /\ UNCHANGED <<pc, now, nextSweepAt>>

\* POST /api/logs/upload with body { logsData }
Upload(logsData) ==
    LET answer == [NoResponse EXCEPT !.op = "upload", !.data = logsData]
        logsArray == logsData.items
    IN  /\ pc = "serving"
        /\ IF logsData.kind = "missing"
           THEN /\ last' = [answer EXCEPT !.status = 400,
                                          !.error = "logsData is required"]
                /\ UNCHANGED <<disk, allLogs>>
           ELSE IF Len(logsArray) = 0
           THEN /\ last' = [answer EXCEPT !.status = 400,
                                          !.error = "No valid logs found in data"]
                /\ UNCHANGED <<disk, allLogs>>
           ELSE IF SortThrows(allLogs \o logsArray)
           THEN \* the handler's own catch: the entries are pushed, no file
                /\ Len(allLogs) + Len(logsArray) <= MaxIndex
                /\ allLogs' = allLogs \o logsArray
                /\ last' = [answer EXCEPT !.status = 500,
                                          !.error = "Error processing logs"]
                /\ UNCHANGED disk
           ELSE /\ Len(allLogs) + Len(logsArray) <= MaxIndex
                /\ Cardinality(DOMAIN disk \cup {UploadFile(now)}) <= MaxFiles
                /\ allLogs' = SortBy("save", allLogs \o logsArray)
                /\ disk' = WriteFile(disk, UploadFile(now), ArrayOf(logsArray))
                /\ last' = [answer EXCEPT !.status = 200, !.success = TRUE,
                                          !.fileName = UploadFile(now)]
        /\ lastSweep' = NoSweep
        /\ UNCHANGED <<pc, now, nextSweepAt>>

----------------------------------------------------------------------------
(* Requests in flight: parseBody collects the chunks of a request body in   *)
(* a variable of its own call, and the handler runs, without a pause, when  *)
(* the body has ended                                                       *)

\* two save requests at once
Conns == {1, 2}

\* a connection on which no request has arrived
Closed ==
    [state |-> "closed", fileName |-> <<>>, logData |-> Missing, body |-> <<>>,
     sent |-> 0, status |-> 0, interleaved |-> FALSE]

NoConns == [c \in Conns |-> Closed]

\* the text of the body of request c, in the chunks the socket delivers
ChunksOf(c) == [i \in 1..MaxChunks |-> [req |-> c, part |-> i]]

\* JSON.parse(body) succeeds on the whole text of one request, and throws on
\* a text mixed from two
Parses(body) == \E c \in Conns : body = ChunksOf(c)

\* the request whose text the body is
ParsedFrom(body) == CHOOSE c \in Conns : body = ChunksOf(c)

\* a chunk of d lies between the chunks of another request
MidBody(cs, d) == cs[d].state = "receiving" /\ 0 < cs[d].sent /\ cs[d].sent < MaxChunks

\* a save request arrives: parseBody(req) starts with let body = ''
Arrive(c, fileName, logData) ==
    /\ pc = "serving"
    /\ conns[c].state = "closed"
    /\ conns' = [conns EXCEPT ![c] = [Closed EXCEPT !.state = "receiving",
                                         !.fileName = fileName,
                                         !.logData = logData]]
    /\ UNCHANGED <<serverVars, clientVars, dashboard>>

\* faulty variant: one body variable shared by the requests in flight
ReceiveShared(cs, c) ==
    LET chunk == [req |-> c, part |-> cs[c].sent + 1]
    IN  [d \in Conns |->
            IF d = c
            THEN [cs[d] EXCEPT !.body = Append(@, chunk), !.sent = @ + 1,
                     !.interleaved = @ \/ \E o \in Conns \ {c} : MidBody(cs, o)]
            ELSE IF cs[d].state = "receiving"
            THEN [cs[d] EXCEPT !.body = Append(@, chunk)]
            ELSE cs[d]]

\* req.on('data', chunk => body += chunk): the chunk joins the body of its
\* own request
Receive(cs, c) ==
    LET chunk == [req |-> c, part |-> cs[c].sent + 1]
    IN  [cs EXCEPT ![c].body = Append(@, chunk), ![c].sent = @ + 1,
            ![c].interleaved = @ \/ \E o \in Conns \ {c} : MidBody(cs, o)]

\* a 'data' event of request c
Data(c) ==
    /\ conns[c].state = "receiving"
    /\ conns[c].sent < MaxChunks
    /\ conns' = Receive(conns, c)
    /\ UNCHANGED <<serverVars, clientVars, dashboard>>

\* the 'end' event of request c: the body is parsed and the save handler runs
\* to its response; a body that does not parse is answered 500
End(c) ==
    /\ conns[c].state = "receiving"
    /\ conns[c].sent = MaxChunks
    /\ IF Parses(conns[c].body)
       THEN LET request == conns[ParsedFrom(conns[c].body)]
            IN  Save(request.fileName, request.logData)
       ELSE /\ last' = [NoResponse EXCEPT !.op = "save", !.status = 500,
                           !.error = "Internal server error"]
            /\ UNCHANGED <<pc, now, disk, allLogs, nextSweepAt, lastSweep>>
    /\ conns' = [conns EXCEPT ![c].state = "answered", ![c].status = last'.status]
    /\ UNCHANGED <<clientVars, dashboard>>

----------------------------------------------------------------------------
(* The client's Event Queue (logClient.js): queueAction, flushQueue, the    *)
(* batch timer and the batches handed to the transport                      *)

DefaultBatchSize == 10

BatchTimeoutMs == 5000

NoTimer == [pending |-> FALSE, armedAt |-> 0]

NoCalls ==
    [enqueued |-> 0, flushes |-> 0, firings |-> 0, last |-> "none",
     again |-> FALSE]

ClientAtRest ==
    /\ batchSize = DefaultBatchSize
    /\ queue = <<>>
    /\ timer = NoTimer
    /\ clock = 0
    /\ transport = <<>>
    /\ calls = NoCalls

\* the timestamp filled in for an entry that came without one, as the
\* entries of the guide's callers do
AutoStamp(t) == [k |-> "auto", t |-> t]

\* a delivery is under way
InFlight == \E i \in DOMAIN transport : transport[i].state = "inFlight"

\* history: the call op is made now
Called(op) ==
    [calls EXCEPT !.last = op, !.again = (calls.last = op)]

\* faulty variant: the batch is handed over and the timer is left pending
HandOverKeepingTimer(q) ==
    /\ transport' = Append(transport, [batch |-> q, state |-> "inFlight"])
    /\ queue' = <<>>
    /\ timer' = timer

\* the entries q go to the transport as one batch: the queue starts afresh
\* and the pending timer is cancelled
HandOver(q) ==
    /\ transport' = Append(transport, [batch |-> q, state |-> "inFlight"])
    /\ queue' = <<>>
    /\ timer' = NoTimer

\* faulty variant: a request is sent for an empty queue too
FlushQueueSendingEmpty == HandOver(queue)

\* the body of flushQueue(): nothing on an empty queue, else the whole queue
\* is taken as the batch
FlushQueue ==
    IF queue = <<>>
    THEN UNCHANGED <<queue, timer, transport>>
    ELSE HandOver(queue)

\* faulty variant: the batch is sent once the queue is longer than batchSize
EnqueueFlushingAbove ==
    LET entry == [seq |-> calls.enqueued + 1,
                  timestamp |-> AutoStamp(clock),
                  inFlight |-> InFlight]
        q == Append(queue, entry)
    IN  /\ calls.enqueued < MaxEnqueued
        /\ IF Len(q) > batchSize
           THEN HandOver(q)
           ELSE /\ queue' = q
                /\ timer' = IF timer.pending THEN timer
                            ELSE [pending |-> TRUE, armedAt |-> clock]
                /\ UNCHANGED transport
        /\ calls' = [Called("enqueue") EXCEPT !.enqueued = @ + 1]
        /\ UNCHANGED <<batchSize, clock, serverVars, conns, dashboard>>

\* queueAction(entry): the entry is appended, its timestamp filled in; the
\* batch is sent when the queue reaches batchSize, else
\* the timer is armed if none is pending
Enqueue ==
    LET entry == [seq |-> calls.enqueued + 1,
                  timestamp |-> AutoStamp(clock),
                  inFlight |-> InFlight]
        q == Append(queue, entry)
    IN  /\ calls.enqueued < MaxEnqueued
        /\ IF Len(q) >= batchSize
           THEN HandOver(q)
           ELSE /\ queue' = q
                /\ timer' = IF timer.pending THEN timer
                            ELSE [pending |-> TRUE, armedAt |-> clock]
                /\ UNCHANGED transport
        /\ calls' = [Called("enqueue") EXCEPT !.enqueued = @ + 1]
        /\ UNCHANGED <<batchSize, clock, serverVars, conns, dashboard>>

\* flushQueue() called by the page
Flush ==
    /\ calls.flushes < MaxFlushes
    /\ FlushQueue
    /\ calls' = [Called("flush") EXCEPT !.flushes = @ + 1]
    /\ UNCHANGED <<batchSize, clock, serverVars, conns, dashboard>>

\* faulty variant: the timer fires as soon as it is armed
TimerDueAtOnce == timer.pending

\* batchTimeoutMs have passed since the timer was armed
TimerDue == timer.pending /\ clock >= timer.armedAt + BatchTimeoutMs

\* the timer's callback: the timer is spent and the queue is flushed
TimerFires ==
    /\ TimerDue
    /\ IF queue = <<>>
       THEN timer' = NoTimer /\ UNCHANGED <<queue, transport>>
       ELSE FlushQueue
    /\ calls' = [Called("timer") EXCEPT !.firings = @ + 1]
    /\ UNCHANGED <<batchSize, clock, serverVars, conns, dashboard>>

\* the browser's clock moves on by half a batch timeout, a due timer first
ClientTick ==
    /\ clock < MaxTimeouts * BatchTimeoutMs
    /\ ~TimerDue
    /\ clock' = clock + BatchTimeoutMs \div 2
    /\ UNCHANGED <<batchSize, queue, timer, transport, calls, serverVars, conns, dashboard>>

\* faulty variant: the queue is cleared when the delivery has succeeded
DeliveredClearingQueue(i) ==
    /\ transport[i].state = "inFlight"
    /\ transport' = [transport EXCEPT ![i].state = "delivered"]
    /\ queue' = <<>>
    /\ UNCHANGED <<batchSize, timer, clock, calls, serverVars, conns, dashboard>>

\* the delivery of batch i succeeds
Delivered(i) ==
    /\ transport[i].state = "inFlight"
    /\ transport' = [transport EXCEPT ![i].state = "delivered"]
    /\ UNCHANGED <<batchSize, queue, timer, clock, calls, serverVars, conns, dashboard>>

\* faulty variant: the batch of a failed delivery is put back in the queue
RejectedRequeueing(i) ==
    /\ transport[i].state = "inFlight"
    /\ transport' = [transport EXCEPT ![i].state = "rejected"]
    /\ queue' = transport[i].batch \o queue
    /\ UNCHANGED <<batchSize, timer, clock, calls, serverVars, conns, dashboard>>

\* the delivery of batch i fails: the caller sees the rejection and the batch
\* is not queued again
Rejected(i) ==
    /\ transport[i].state = "inFlight"
    /\ transport' = [transport EXCEPT ![i].state = "rejected"]
    /\ UNCHANGED <<batchSize, queue, timer, clock, calls, serverVars, conns, dashboard>>

----------------------------------------------------------------------------
(* The dashboard page: fetchLogs asks GET /api/logs and merges the answer   *)
(* into the page's own allLogs; a refresh can start while an earlier        *)
(* fetch is still under way                                                 *)

MaxFetches == 2

\* the page after its script ran with nothing in localStorage
PageLoaded ==
    [allLogs |-> <<>>, responses |-> <<>>, merged |-> {}, fetches |-> 0]

\* normalizeLogData: an entry with userName and companyId is taken as it
\* is; otherwise the dashboard's fields are filled in, the timestamp copied
NormalizeLogData(logData) ==
    IF logData.userName.present /\ logData.companyId.present
    THEN logData
    ELSE [logData EXCEPT
            !.userName = Text("unknown_user"),
            !.companyId = Text("unknown_company")]

NormalizeAll(newLogs) ==
    [i \in DOMAIN newLogs |-> NormalizeLogData(newLogs[i])]

\* mergeLogs: the timestamps of the page's entries are collected first, the
\* response's entries whose timestamp is not among them go in front
MergeLogs(existing, newLogs) ==
    LET existingTimestamps == {existing[i].timestamp : i \in DOMAIN existing}
        uniqueNewLogs ==
            SelectSeq(NormalizeAll(newLogs),
                      LAMBDA log : log.timestamp \notin existingTimestamps)
    IN  uniqueNewLogs \o existing

\* fetchLogs up to the response: the server answers GET /api/logs
FetchLogs ==
    /\ dashboard.fetches < MaxFetches
    /\ GetAll
    /\ dashboard' = [dashboard EXCEPT
                        !.responses = Append(@, allLogs),
                        !.fetches = @ + 1]
    /\ UNCHANGED <<conns, clientVars>>

\* fetchLogs from the response on: response.json() resolved, mergeLogs runs
ResponseArrives(i) ==
    /\ i \in DOMAIN dashboard.responses
    /\ dashboard' = [dashboard EXCEPT
                        !.allLogs = MergeLogs(@, dashboard.responses[i]),
                        !.responses = SubSeq(@, 1, i - 1) \o SubSeq(@, i + 1, Len(@)),
                        !.merged = @ \cup {dashboard.responses[i]}]
    /\ UNCHANGED <<serverVars, conns, clientVars>>

\* a step of the server alone
Quiet == UNCHANGED <<conns, clientVars, dashboard>>

----------------------------------------------------------------------------
(* The server under requests: a few streams, short bodies *)

TOld == Now0 - SevenDaysMs - SecondMs      \* out of the window at start
TRecent == Now0 - DayMs
TNewer == Now0 - SecondMs

EOld == Entry(DateTs(TOld), "login")
ERecent == Entry(DateTs(TRecent), "click")
ENewer == Entry(DateTs(TNewer), "logout")

SeqsUpTo(S, n) == UNION {[1..k -> S] : k \in 0..n}

\* request bodies: a single object, an array in ascending order of time, an
\* array whose last entry is out of the window, an empty array, no data
Bodies ==
    {ObjectOf(ERecent), ArrayOf(<<ERecent, ENewer>>), ArrayOf(<<ENewer, EOld>>),
     ArrayOf(<<>>), Missing}

FileNames == {<<"t">>, <<"a", ".", "b">>, <<>>}

PathNames == FileNames \cup {ListName}

\* log/ as the starting process finds it
StartDisks ==
    {EmptyDisk}
    \cup {WriteFile(EmptyDisk, JsonName(<<"t">>), c) :
            c \in {ArrayOf(<<EOld>>), ArrayOf(<<ERecent, EOld>>), ObjectOf(ENewer)}}

Init ==
    /\ pc = "boot"
    /\ now = Now0
    /\ disk \in StartDisks
    /\ allLogs = <<>>
    /\ nextSweepAt = 0
    /\ last = NoResponse
    /\ lastSweep = NoSweep
    /\ conns = NoConns
    /\ ClientAtRest
    /\ dashboard = PageLoaded

Next ==
    \/ Startup /\ Quiet
    \/ Scheduled /\ Quiet
    \/ TickToTimer /\ Quiet
    \/ GetAll /\ Quiet
    \/ \E name \in PathNames : GetFile(name) /\ Quiet
    \/ \E name \in FileNames, body \in Bodies : Save(name, body) /\ Quiet
    \/ \E name \in FileNames : Delete(name) /\ Quiet
    \/ Cleanup /\ Quiet
    \/ \E body \in Bodies : Upload(body) /\ Quiet

Spec == Init /\ [][Next]_vars

----------------------------------------------------------------------------
(* The server under file names that try to leave log/ *)

\* ../../etc/passwd
TraversalName ==
    <<".", ".", "/", ".", ".", "/", "e", "t", "c", "/", "p", "a", "s", "s", "w", "d">>

PathChars == {".", "/", "t"}

\* the file names of the requests: every short string over the path
\* characters, and the traversal name
RequestNames ==
    UNION {[1..k -> PathChars] : k \in 0..MaxName} \cup {TraversalName}

\* the entry of the file found at start
PathEntry == Entry(DateTs(Now0 - SecondMs), "click")

\* the body the saves of this specification carry
PathBody == ArrayOf(<<ERecent, ENewer>>)

\* the file ______etc_passwd.json
SanitizedTraversalFile ==
    <<"_", "_", "_", "_", "_", "_", "e", "t", "c", "_",
      "p", "a", "s", "s", "w", "d", ".", "j", "s", "o", "n">>

\* log/ at start: empty, or holding ______etc_passwd.json
PathDisks ==
    {EmptyDisk, WriteFile(EmptyDisk, SanitizedTraversalFile, ObjectOf(PathEntry))}

InitPath ==
    /\ pc = "boot"
    /\ now = Now0
    /\ disk \in PathDisks
    /\ allLogs = <<>>
    /\ nextSweepAt = 0
    /\ last = NoResponse
    /\ lastSweep = NoSweep
    /\ conns = NoConns
    /\ ClientAtRest
    /\ dashboard = PageLoaded

NextPath ==
    \/ Startup /\ Quiet
    \/ \E name \in RequestNames : GetFile(name) /\ Quiet
    \/ \E name \in RequestNames : Save(name, PathBody) /\ Quiet
    \/ \E name \in RequestNames : Delete(name) /\ Quiet

PathSpec == InitPath /\ [][NextPath]_vars

----------------------------------------------------------------------------
(* The save endpoint under entries without identifiers and under stream     *)
(* names that differ in one character                                      *)

EValid == UserEntry(DateTs(TNewer), "click", Text("john_doe"), Text("COMP-1234"))
ENoUser == UserEntry(DateTs(TNewer), "click", Text(""), Text("COMP-1234"))
ENoCompany == UserEntry(DateTs(TNewer), "click", Text("john_doe"), AbsentField)

BoundaryBodies ==
    {ObjectOf(EValid), ObjectOf(ENoUser), ObjectOf(ENoCompany),
     ArrayOf(<<EValid, ENoUser>>)}

BoundaryNames == {<<"t">>, <<"t", ".", "b">>, <<"t", "_", "b">>}

InitBoundary ==
    /\ pc = "boot"
    /\ now = Now0
    /\ disk = EmptyDisk
    /\ allLogs = <<>>
    /\ nextSweepAt = 0
    /\ last = NoResponse
    /\ lastSweep = NoSweep
    /\ conns = NoConns
    /\ ClientAtRest
    /\ dashboard = PageLoaded

NextBoundary ==
    \/ Startup /\ Quiet
    \/ GetAll /\ Quiet
    \/ \E name \in BoundaryNames : GetFile(name) /\ Quiet
    \/ \E name \in BoundaryNames, body \in BoundaryBodies : Save(name, body) /\ Quiet

BoundarySpec == InitBoundary /\ [][NextBoundary]_vars

----------------------------------------------------------------------------
(* Two save requests at once, their body chunks arriving in any order *)

ConcNames == {<<"t">>, <<"t", ".", "b">>, <<"t", "_", "b">>}

ConcBodies == {ObjectOf(EOld), ObjectOf(ERecent), ObjectOf(ENewer)}

NextConc ==
    \/ Startup /\ Quiet
    \/ \E c \in Conns, name \in ConcNames, body \in ConcBodies :
          Arrive(c, name, body)
    \/ \E c \in Conns : Data(c)
    \/ \E c \in Conns : End(c)

ConcSpec == InitBoundary /\ [][NextConc]_vars

----------------------------------------------------------------------------
(* One client: a few entries, flushQueue() calls, time passing, deliveries  *)
(* that succeed or fail                                                     *)

InitClient ==
    /\ pc = "boot"
    /\ now = Now0
    /\ disk = EmptyDisk
    /\ allLogs = <<>>
    /\ nextSweepAt = 0
    /\ last = NoResponse
    /\ lastSweep = NoSweep
    /\ conns = NoConns
    /\ batchSize \in 1..MaxBatchSize
    /\ queue = <<>>
    /\ timer = NoTimer
    /\ clock = 0
    /\ transport = <<>>
    /\ calls = NoCalls
    /\ dashboard = PageLoaded

NextClient ==
    \/ Enqueue
    \/ Flush
    \/ TimerFires
    \/ ClientTick
    \/ \E i \in DOMAIN transport : Delivered(i)
    \/ \E i \in DOMAIN transport : Rejected(i)

ClientSpec == InitClient /\ [][NextClient]_vars

----------------------------------------------------------------------------
(* The client while time passes: the timer fires when it is due, and        *)
(* entries are enqueued only while their timer can still come due           *)

TimeoutToCome ==
    \/ timer.pending
    \/ clock + BatchTimeoutMs <= MaxTimeouts * BatchTimeoutMs

NextClientLive ==
    \/ TimeoutToCome /\ Enqueue
    \/ Flush
    \/ TimerFires
    \/ ClientTick

\* the browser's clock runs and a due timer's callback is run
ClientLiveSpec ==
    /\ InitClient
    /\ [][NextClientLive]_vars
    /\ WF_vars(TimerFires)
    /\ WF_vars(ClientTick)

----------------------------------------------------------------------------
(* The dashboard beside the server: saves fill the index, the page fetches  *)
(* and merges; two of the events carry the same timestamp and one entry     *)
(* comes without a userName                                                 *)

EClick == Entry(DateTs(TRecent), "click")
EScroll == Entry(DateTs(TRecent), "scroll")
EAnonymous == UserEntry(DateTs(TNewer), "login", AbsentField, Text("COMP-1234"))

DashBodies ==
    {ObjectOf(EClick), ObjectOf(EAnonymous), ArrayOf(<<EClick, EScroll>>),
     ArrayOf(<<EAnonymous, EClick>>)}

InitDash ==
    /\ pc = "boot"
    /\ now = Now0
    /\ disk = EmptyDisk
    /\ allLogs = <<>>
    /\ nextSweepAt = 0
    /\ last = NoResponse
    /\ lastSweep = NoSweep
    /\ conns = NoConns
    /\ ClientAtRest
    /\ dashboard = PageLoaded

NextDash ==
    \/ Startup /\ Quiet
    \/ \E body \in DashBodies : Save(<<"t">>, body) /\ Quiet
    \/ FetchLogs
    \/ \E i \in DOMAIN dashboard.responses : ResponseArrives(i)

DashSpec == InitDash /\ [][NextDash]_vars

----------------------------------------------------------------------------
(* Saves the server answers with an error: bodies without logData or        *)
(* fileName, arrays that hold null, and the string 'null'                   *)

ErrorBodies ==
    {ObjectOf(ERecent), ArrayOf(<<ERecent, NullElement>>), ArrayOf(<<NullElement>>),
     StringNull, NullJson, Missing}

InitError ==
    /\ pc = "boot"
    /\ now = Now0
    /\ disk = EmptyDisk
    /\ allLogs = <<>>
    /\ nextSweepAt = 0
    /\ last = NoResponse
    /\ lastSweep = NoSweep
    /\ conns = NoConns
    /\ ClientAtRest
    /\ dashboard = PageLoaded

NextError ==
    \/ Startup /\ Quiet
    \/ \E fileName \in {<<>>, <<"t">>, <<"u">>}, body \in ErrorBodies :
          Save(fileName, body) /\ Quiet
    \/ GetAll /\ Quiet
    \/ Cleanup /\ Quiet

ErrorSpec == InitError /\ [][NextError]_vars

----------------------------------------------------------------------------
(* The server under the file names a save accepts, the name of the listing  *)
(* route among them                                                         *)

AcceptedNames == {<<"t">>, <<"a", ".", "b">>, <<"a", "_", "b">>, ListName}

NextNames ==
    \/ Startup /\ Quiet
    \/ \E name \in AcceptedNames : GetFile(name) /\ Quiet
    \/ \E name \in AcceptedNames, body \in Bodies : Save(name, body) /\ Quiet

NamesSpec == InitBoundary /\ [][NextNames]_vars

----------------------------------------------------------------------------
(* The index under entries whose timestamps do not parse: files and bodies  *)
(* that mix dates with absent and non-date timestamps                       *)

OrderTimestamps == {DateTs(TRecent), DateTs(TNewer), UndefinedTs, GarbageTs}

OrderEntries == {Entry(ts, "click") : ts \in OrderTimestamps}

OrderBodies ==
    {ObjectOf(e) : e \in OrderEntries}
    \cup {ArrayOf(<<a, b>>) : a \in OrderEntries, b \in OrderEntries}

OrderDisks ==
    {EmptyDisk}
    \cup {WriteFile(EmptyDisk, JsonName(<<"s">>), ArrayOf(s)) :
            s \in SeqsUpTo(OrderEntries, MaxLen)}

InitOrder ==
    /\ pc = "boot"
    /\ now = Now0
    /\ disk \in OrderDisks
    /\ allLogs = <<>>
    /\ nextSweepAt = 0
    /\ last = NoResponse
    /\ lastSweep = NoSweep
    /\ conns = NoConns
    /\ ClientAtRest
    /\ dashboard = PageLoaded

NextOrder ==
    \/ Startup /\ Quiet
    \/ Cleanup /\ Quiet
    \/ \E body \in OrderBodies : Save(<<"t">>, body) /\ Quiet
    \/ \E body \in OrderBodies : Upload(body) /\ Quiet

OrderSpec == InitOrder /\ [][NextOrder]_vars

----------------------------------------------------------------------------
(* The server over the days: the 24-hour timer keeps firing, and requests   *)
(* that write arrive only while a firing is still to come                  *)

LiveBodies == {ObjectOf(ERecent), ArrayOf(<<ENewer, EOld>>)}

LiveName == <<"t">>

\* the timer is due, or the clock can still reach its next due time
TimerToCome ==
    \/ now >= nextSweepAt
    \/ (nextSweepAt - Now0) \div DayMs <= MaxDays

NextLive ==
    \/ Startup /\ Quiet
    \/ TickToTimer /\ Quiet
    \/ Scheduled /\ Quiet
    \/ GetAll /\ Quiet
    \/ \E body \in LiveBodies : TimerToCome /\ Save(LiveName, body) /\ Quiet
    \/ \E body \in LiveBodies : TimerToCome /\ Upload(body) /\ Quiet
    \/ Delete(LiveName) /\ Quiet

\* time passes and the setInterval callback runs whenever it is due
LiveSpec ==
    /\ Init
    /\ [][NextLive]_vars
    /\ WF_vars(Startup /\ Quiet)
    /\ WF_vars(TickToTimer /\ Quiet)
    /\ WF_vars(Scheduled /\ Quiet)

----------------------------------------------------------------------------
(* The sweep over files found at start: one file of any short content, and *)
(* possibly a second one                                                   *)

Cutoff0 == Now0 - SevenDaysMs

SweepTimestamps ==
    {DateTs(Cutoff0 - SecondMs), DateTs(Cutoff0), DateTs(Cutoff0 + SecondMs),
     DateTs(Cutoff0 + 2 * SecondMs), UndefinedTs, NullTs, GarbageTs}

SweepEntries == {Entry(ts, "click") : ts \in SweepTimestamps}

SweepContents ==
    {ArrayOf(s) : s \in SeqsUpTo(SweepEntries, MaxLen)}
    \cup {ObjectOf(e) : e \in SweepEntries}

OtherContents ==
    {ObjectOf(Entry(DateTs(Cutoff0 - SecondMs), "login")),
     ObjectOf(Entry(DateTs(Cutoff0), "login")), Malformed, NullJson}

SweepDisks ==
    {WriteFile(EmptyDisk, JsonName(<<"s">>), c) : c \in SweepContents}
    \cup {WriteFile(WriteFile(EmptyDisk, JsonName(<<"s">>), c), JsonName(<<"o">>), o) :
            c \in SweepContents, o \in OtherContents}

InitSweep ==
    /\ pc = "boot"
    /\ now = Now0
    /\ disk \in SweepDisks
    /\ allLogs = <<>>
    /\ nextSweepAt = 0
    /\ last = NoResponse
    /\ lastSweep = NoSweep
    /\ conns = NoConns
    /\ ClientAtRest
    /\ dashboard = PageLoaded

NextSweep ==
    \/ Startup /\ Quiet
    \/ Scheduled /\ Quiet
    \/ TickSecond /\ Quiet
    \/ TickToTimer /\ Quiet
    \/ Cleanup /\ Quiet
    \/ GetAll /\ Quiet

SweepSpec == InitSweep /\ [][NextSweep]_vars

----------------------------------------------------------------------------
(* Vocabulary of the properties *)

SweepingOps == {"startup", "scheduled", "save", "cleanup"}

\* every timestamp parses to a date and none is before the cutoff of time t
AllInWindow(content, t) ==
    \A e \in RangeOf(content.items) :
        e.timestamp.k = "date" /\ e.timestamp.t >= t - SevenDaysMs

AllParseable(content) ==
    \A e \in RangeOf(content.items) : e.timestamp.k = "date"

\* the earliest instant among parseable timestamps
MinTime(content) ==
    CHOOSE t \in {e.timestamp.t : e \in RangeOf(content.items)} :
        \A e \in RangeOf(content.items) : t <= e.timestamp.t

SavedOk == last.op = "save" /\ last.status = 200

----------------------------------------------------------------------------
(* C1 *)

\* C1 (as claimed): once the server serves, after every completed operation
\* the index holds exactly the entries of the files on disk, each as often.
C1_IndexEqualsDisk == pc = "serving" => IndexMatchesDisk

(* C2 *)

\* C2 (as claimed): once an operation that ran a sweep has completed, the body
\* of the next GET /api/logs holds no entry of a file that the sweep deleted,
\* beyond the copies of that entry still on disk.
C2_NoDeletedEntryServed ==
    (last.op \in SweepingOps /\ lastSweep.ran) =>
        \A f \in RangeOf(lastSweep.deleted) :
            \A e \in RangeOf(ItemsOf(lastSweep.before[f])) :
                CountIn(GetAllResponse(allLogs).logs, e) <= CountIn(DiskEntries(disk), e)

(* C3 *)

C4_SavedEntryOnce ==
    (SavedOk /\ last.data.kind = "object" /\ last.name = <<"t">>) =>
        /\ last.success
        /\ last.fileName = <<"t", ".", "j", "s", "o", "n">>
        /\ CountIn(allLogs, last.data.items[1]) = 1

(* C5 *)

\* the entries of file f after the step; none when the file is gone
ItemsAfter(f) == IF f \in DOMAIN disk' THEN ItemsOf(disk'[f]) ELSE <<>>

\* the step removed a copy of some entry of file f
EntryLost(f) ==
    \E e \in RangeOf(ItemsOf(disk[f])) :
        CountIn(ItemsAfter(f), e) < CountIn(ItemsOf(disk[f]), e)

\* the step unlinked f in a sweep or in DELETE /api/logs/:fileName
DeletedWhole(f) ==
    /\ f \notin DOMAIN disk'
    /\ \/ last'.op \in SweepingOps /\ lastSweep'.ran
          /\ f \in RangeOf(lastSweep'.deleted)
       \/ last'.op = "delete" /\ last'.status = 200
          /\ f = JsonName(Sanitize(last'.name))

\* the step was a save or an upload that wrote file f
Overwritten(f) ==
    /\ last'.op \in {"save", "upload"}
    /\ last'.status = 200
    /\ last'.fileName = f

\* C5 (as claimed): an entry leaves the disk only when its file is deleted by
\* a sweep or by DELETE; no save or upload removes an entry already on disk.
C5_OnlyDeletionRemoves ==
    [][\A f \in DOMAIN disk : EntryLost(f) => DeletedWhole(f)]_vars

\* C5 (amended): an entry leaves the disk only when its file is deleted by a
\* sweep or by DELETE, or when a save or an upload writes the same file name
\* again; operations on other file names leave it in place.
C5_OnlyDeletionOrRewriteRemoves ==
    [][\A f \in DOMAIN disk : EntryLost(f) => (DeletedWhole(f) \/ Overwritten(f))]_vars

\* a save that replaced a file of two entries by an empty one, while the other
\* stream's file kept its entry
C5_Witness ==
    /\ SavedOk
    /\ last.replaced = ArrayOf(<<ERecent, ENewer>>)
    /\ last.data = ArrayOf(<<>>)
    /\ last.fileName \in DOMAIN disk
    /\ disk[last.fileName] = ArrayOf(<<>>)
    /\ \E f \in DOMAIN disk : f # last.fileName /\ Len(ItemsOf(disk[f])) > 0

(* C6 *)

\* C6: after a successful save whose timestamps are all inside the retention
\* window, the file of the stream holds exactly the saved content, whatever it
\* held before.
C6_SaveReplaces ==
    (SavedOk /\ AllInWindow(DataToSave(last.data), lastSweep.at)) =>
        /\ Exists(disk, SaveFile(last.name))
        /\ disk[SaveFile(last.name)] = DataToSave(last.data)

\* save(t, A) then save(t, B), both in the window, B lacking an entry of A
C6_Witness ==
    /\ SavedOk
    /\ last.replaced = ArrayOf(<<ERecent, ENewer>>)
    /\ last.data = ObjectOf(ERecent)
    /\ SaveFile(last.name) \in DOMAIN disk
    /\ disk[SaveFile(last.name)] = ObjectOf(ERecent)

----------------------------------------------------------------------------
(* The retention sweep: C7 to C10 *)

\* the files the last sweep examined that held exactly one entry stamped ts
SingleEntryFiles(ts) ==
    {f \in DOMAIN lastSweep.before :
        /\ EndsWithJson(f)
        /\ Len(ItemsOf(lastSweep.before[f])) = 1
        /\ ItemsOf(lastSweep.before[f])[1].timestamp = ts}

DeletedBySweep(f) == f \in RangeOf(lastSweep.deleted) /\ f \notin DOMAIN disk

RetainedBySweep(f) ==
    /\ f \notin RangeOf(lastSweep.deleted)
    /\ f \in DOMAIN disk
    /\ disk[f] = lastSweep.before[f]

\* C7: a sweep at time now deletes a file whose single entry is stamped
\* now - 7 days - 1 second and retains one stamped now - 7 days + 1 second.
C7_RetentionBoundary ==
    lastSweep.ran =>
        /\ \A f \in SingleEntryFiles(DateTs(lastSweep.at - SevenDaysMs - SecondMs)) :
              DeletedBySweep(f)
        /\ \A f \in SingleEntryFiles(DateTs(lastSweep.at - SevenDaysMs + SecondMs)) :
              RetainedBySweep(f)

\* one sweep that met a file of each kind
C7_Witness ==
    /\ lastSweep.ran
    /\ \E f \in SingleEntryFiles(DateTs(lastSweep.at - SevenDaysMs - SecondMs)) :
          DeletedBySweep(f)
    /\ \E f \in SingleEntryFiles(DateTs(lastSweep.at - SevenDaysMs + SecondMs)) :
          RetainedBySweep(f)

\* the files the last sweep examined that hold entries, all stamped with dates
DatedFiles ==
    {f \in DOMAIN lastSweep.before :
        /\ EndsWithJson(f)
        /\ lastSweep.before[f].kind \in {"array", "object"}
        /\ Len(lastSweep.before[f].items) > 0
        /\ AllParseable(lastSweep.before[f])}

\* C8: a file with at least one entry and only parseable timestamps is deleted
\* by a sweep exactly when the minimum of its timestamps is before now - 7
\* days, wherever that entry stands in the file.
C8_MinimumGoverns ==
    lastSweep.ran =>
        \A f \in DatedFiles :
            IF MinTime(lastSweep.before[f]) < lastSweep.at - SevenDaysMs
            THEN DeletedBySweep(f)
            ELSE RetainedBySweep(f)

\* a file deleted for its last entry, the earlier two being in the window
C8_Witness ==
    /\ lastSweep.ran
    /\ \E f \in DatedFiles :
          LET items == lastSweep.before[f].items
          IN  /\ Len(items) = 3
              /\ items[1].timestamp.t >= lastSweep.at - SevenDaysMs
              /\ items[2].timestamp.t >= lastSweep.at - SevenDaysMs
              /\ items[3].timestamp.t < lastSweep.at - SevenDaysMs
              /\ DeletedBySweep(f)

\* some entry of the file parses to a date before the cutoff of the last sweep
HasOldEntry(content) ==
    \E e \in RangeOf(ItemsOf(content)) :
        e.timestamp.k = "date" /\ e.timestamp.t < lastSweep.at - SevenDaysMs

\* C9 (as claimed): a file with an entry whose timestamp parses and is older
\* than now - 7 days is deleted by a sweep, wherever the entries with missing
\* or unparseable timestamps stand.
C9_UnparseableCannotSuppress ==
    lastSweep.ran =>
        \A f \in DOMAIN lastSweep.before :
            (EndsWithJson(f) /\ HasOldEntry(lastSweep.before[f])) => DeletedBySweep(f)

\* C10 (as claimed): a file in which every entry with a parseable timestamp is
\* newer than now - 7 days is retained by every sweep, whether the other
\* timestamps are absent, null or not a date.
C10_UnparseableCannotForce ==
    lastSweep.ran =>
        \A f \in DOMAIN lastSweep.before :
            (EndsWithJson(f) /\ ~HasOldEntry(lastSweep.before[f])) => RetainedBySweep(f)

----------------------------------------------------------------------------
(* Failures, empty files and granularity: C11 to C13 *)

\* the files the last sweep could not process: text that is not JSON, or
\* JSON that is no entry
FailingFiles ==
    {f \in DOMAIN lastSweep.before :
        EndsWithJson(f) /\ lastSweep.before[f].kind \in {"malformed", "null"}}

\* C11: when a file fails to process during a sweep, the operation that ran
\* the sweep still completes, the failing file stays on disk as it was, and
\* every other file whose minimum timestamp is before the cutoff is deleted in
\* that same sweep, in whatever order the directory was enumerated.
C11_SweepIsolation ==
    (lastSweep.ran /\ FailingFiles # {}) =>
        /\ last.op \in SweepingOps
        /\ last.op = "cleanup" => (last.status = 200 /\ last.success)
        /\ \A f \in FailingFiles : RetainedBySweep(f)
        /\ \A g \in DatedFiles :
              MinTime(lastSweep.before[g]) < lastSweep.at - SevenDaysMs
                  => DeletedBySweep(g)

\* an on-demand sweep that met a failing file and deleted an expired one
C11_Witness ==
    /\ lastSweep.ran
    /\ last.op = "cleanup"
    /\ last.success
    /\ \E f \in FailingFiles : RetainedBySweep(f)
    /\ \E g \in DatedFiles : DeletedBySweep(g)

\* C12: a file whose content is the empty array is deleted by no sweep,
\* whichever trigger ran it.
C12_EmptyFileKept ==
    lastSweep.ran =>
        \A f \in DOMAIN lastSweep.before :
            (EndsWithJson(f) /\ lastSweep.before[f] = ArrayOf(<<>>))
                => RetainedBySweep(f)

\* the 24-hour sweep deleted an expired file and left the empty one
C12_Witness ==
    /\ lastSweep.ran
    /\ last.op = "scheduled"
    /\ Len(lastSweep.deleted) > 0
    /\ \E f \in DOMAIN lastSweep.before :
          lastSweep.before[f] = ArrayOf(<<>>) /\ RetainedBySweep(f)

\* every file of before is either gone from after or there with the same content
Granular(before, after) ==
    /\ DOMAIN after \subseteq DOMAIN before
    /\ \A f \in DOMAIN before : f \notin DOMAIN after \/ after[f] = before[f]

\* C13: a sweep or a DELETE removes a file entirely or leaves its content as
\* it was; a file that was not selected for deletion is there unchanged.
C13_FileGranular ==
    [][/\ (last'.op = "delete" /\ now' = now) =>
             /\ Granular(disk, disk')
             /\ \A f \in DOMAIN disk :
                   f # JsonName(Sanitize(last'.name)) => f \in DOMAIN disk'
       /\ lastSweep'.ran =>
             /\ Granular(lastSweep'.before, disk')
             /\ \A f \in DOMAIN lastSweep'.before :
                   f \notin RangeOf(lastSweep'.deleted) => f \in DOMAIN disk'
      ]_vars

\* a sweep removed a file of two entries, one of them recent, and left
\* another file with its entry
C13_Witness ==
    /\ lastSweep.ran
    /\ \E f \in RangeOf(lastSweep.deleted) :
          /\ Len(lastSweep.before[f].items) = 2
          /\ lastSweep.before[f].items[1].timestamp.t >= lastSweep.at - SevenDaysMs
          /\ f \notin DOMAIN disk
    /\ \E g \in DOMAIN disk :
          Len(ItemsOf(disk[g])) > 0 /\ disk[g] = lastSweep.before[g]

----------------------------------------------------------------------------
(* Triggers, summary and rebuild: C14 to C16 *)

WroteOk == last.op \in {"save", "upload"} /\ last.status = 200

\* the operation handled last ran a sweep: every file it found with entries,
\* parseable timestamps and a minimum before the cutoff is gone
SweepExecuted ==
    /\ lastSweep.ran
    /\ \A f \in DatedFiles :
          MinTime(lastSweep.before[f]) < lastSweep.at - SevenDaysMs
              => DeletedBySweep(f)

C15_SummaryExact ==
    last.op = "cleanup" =>
        /\ last.status = 200
        /\ last.deletedCount = Len(last.deletedFiles)
        /\ RangeOf(last.deletedFiles) = DOMAIN lastSweep.before \ DOMAIN disk
        /\ \A i, j \in 1..Len(last.deletedFiles) :
              last.deletedFiles[i] = last.deletedFiles[j] => i = j

\* an on-demand sweep that deleted both files of the directory
C15_Witness ==
    /\ last.op = "cleanup"
    /\ last.deletedCount = 2
    /\ Cardinality(DOMAIN lastSweep.before) = 2
    /\ DOMAIN disk = {}

\* C16: after a successful DELETE the named file is absent, after POST
\* /api/logs/cleanup the files it reports are absent, and in both cases the
\* index holds exactly the entries of the files left on disk, whatever the
\* index held before the call.
C16_RebuiltAfterDeleteAndCleanup ==
    /\ (last.op = "delete" /\ last.status = 200) =>
          /\ JsonName(Sanitize(last.name)) \notin DOMAIN disk
          /\ IndexMatchesDisk
    /\ last.op = "cleanup" =>
          /\ \A f \in RangeOf(last.deletedFiles) : f \notin DOMAIN disk
          /\ IndexMatchesDisk

\* a DELETE that arrived while the index differed from the files and left
\* another file, whose entries are now the index
C16_Witness ==
    /\ last.op = "delete"
    /\ last.status = 200
    /\ last.stale
    /\ Len(allLogs) > 0
    /\ IndexMatchesDisk

----------------------------------------------------------------------------
(* Rejected requests: C17 and C18 *)

\* C17: a save whose body lacks fileName or logData answers 400 and changes
\* nothing: no file is created or overwritten, the index is as it was, and no
\* sweep runs.
C17_RejectedSaveChangesNothing ==
    [][(last'.op = "save" /\ now' = now
          /\ (last'.name = <<>> \/ last'.data.kind = "missing")) =>
            /\ last'.status = 400
            /\ ~last'.success
            /\ disk' = disk
            /\ allLogs' = allLogs
            /\ lastSweep' = lastSweep
      ]_vars

\* a save with entries and no fileName was refused while files and index
\* held entries
C17_Witness ==
    /\ last.op = "save"
    /\ last.status = 400
    /\ last.error = "fileName is required"
    /\ last.name = <<>>
    /\ Len(last.data.items) > 0
    /\ Len(allLogs) > 0
    /\ DOMAIN disk # {}

\* C18: a DELETE for a name whose file does not exist answers 404, never the
\* success payload, and leaves every file and the index as they were; a DELETE
\* that repeats a successful one answers 404.
C18_DeleteMissingIs404 ==
    [][/\ (last'.op = "delete" /\ now' = now
            /\ ~Exists(disk, JsonName(Sanitize(last'.name)))) =>
             /\ last'.status = 404
             /\ ~last'.success
             /\ disk' = disk
             /\ allLogs' = allLogs
       /\ (last'.op = "delete" /\ now' = now
            /\ last.op = "delete" /\ last.status = 200
            /\ last'.name = last.name) =>
             last'.status = 404
      ]_vars

\* the second of two DELETEs of the same file, refused while another file
\* and the index held entries
C18_Witness ==
    /\ last.op = "delete"
    /\ last.status = 404
    /\ last.error = "Log file not found"
    /\ last.again
    /\ Len(allLogs) > 0
    /\ DOMAIN disk # {}

----------------------------------------------------------------------------
(* File names and the storage root: C19 and C20 *)

\* log/______etc_passwd.json, where the traversal name is looked for
SanitizedTraversalPath == LogDir \o <<"/">> \o SanitizedTraversalFile

\* C19 (as claimed): a GET or a DELETE of /api/logs/../../etc/passwd is
\* answered 403 'Access denied'.
C19_TraversalDenied ==
    (last.op \in {"getFile", "delete"} /\ last.name = TraversalName) =>
        /\ last.status = 403
        /\ last.error = "Access denied"

\* C19 (amended): a GET or a DELETE of /api/logs/../../etc/passwd is never
\* answered 403; the only path it examines is log/______etc_passwd.json, and
\* it is answered 404 'Log file not found' when that file does not exist and
\* 200 when it does.
C19_TraversalSanitized ==
    [][(last'.op \in {"getFile", "delete"} /\ last'.name = TraversalName) =>
          /\ last'.path = SanitizedTraversalPath
          /\ IF Exists(disk, SanitizedTraversalFile)
             THEN last'.status = 200
             ELSE last'.status = 404 /\ last'.error = "Log file not found"
      ]_vars

\* the GET of the traversal name, answered 404 after looking inside log/
C19_Witness ==
    /\ last.op = "getFile"
    /\ last.name = TraversalName
    /\ last.status = 404
    /\ last.path = SanitizedTraversalPath
    /\ DOMAIN disk # {}

\* the path is log/<token>.json with a token over [a-zA-Z0-9_-]
DirectChild(path) ==
    LET root == LogDir \o <<"/">>
        file == SubSeq(path, Len(root) + 1, Len(path))
    IN  /\ StartsWith(path, root)
        /\ EndsWithJson(file)
        /\ \A i \in 1..(Len(file) - Len(JsonExt)) : file[i] \in SafeChars

\* the request handled last went to the file system with a file name
TouchedFile ==
    \/ last.op = "save" /\ last.status = 200
    \/ last.op \in {"getFile", "delete"} /\ last.status \in {200, 404}
          /\ last.name # <<>>

\* C20: whatever file name a save, a GET or a DELETE is given, the only path
\* it reads, writes or unlinks is a direct child <token>.json of log/ with a
\* token over [a-zA-Z0-9_-], and every file of the store is such a child.
C20_OnlyDirectChildren ==
    /\ TouchedFile => (last.path # <<>> /\ DirectChild(last.path))
    /\ last.op \in {"save", "getFile", "delete"} =>
          (last.path = <<>> \/ DirectChild(last.path))
    /\ \A f \in DOMAIN disk : DirectChild(PathJoin(LogDir, f))

\* a save under the traversal name, written inside log/
C20_Witness ==
    /\ last.op = "save"
    /\ last.status = 200
    /\ last.name = TraversalName
    /\ last.path = SanitizedTraversalPath
    /\ SanitizedTraversalFile \in DOMAIN disk
    /\ disk[SanitizedTraversalFile] = DataToSave(last.data)

----------------------------------------------------------------------------
(* Rejected uploads and entries without identifiers: C21 and C22 *)

\* C21: an upload whose logsData is missing or an empty array answers 400
\* and changes nothing: no file is created and the index is as it was.
C21_RejectedUploadChangesNothing ==
    [][(last'.op = "upload" /\ now' = now
          /\ (last'.data.kind = "missing" \/ last'.data = ArrayOf(<<>>))) =>
            /\ last'.status = 400
            /\ ~last'.success
            /\ disk' = disk
            /\ allLogs' = allLogs
      ]_vars

\* an upload of the empty array was refused while files and index held entries
C21_Witness ==
    /\ last.op = "upload"
    /\ last.status = 400
    /\ last.error = "No valid logs found in data"
    /\ last.data = ArrayOf(<<>>)
    /\ Len(allLogs) > 0
    /\ DOMAIN disk # {}

\* the identifier is absent or the empty string
Blank(field) == ~field.present \/ field.text = ""

\* the content holds an entry whose userName or companyId is blank
LacksIdentifier(content) ==
    \E e \in RangeOf(content.items) : Blank(e.userName) \/ Blank(e.companyId)

\* C22 (as claimed): a save carrying an entry whose userName or companyId is
\* empty or absent answers 400, and no such entry is in a file or in the index.
C22_EmptyIdentifierRejected ==
    /\ (last.op = "save" /\ LacksIdentifier(DataToSave(last.data))) =>
          last.status = 400
    /\ \A f \in DOMAIN disk : ~LacksIdentifier(disk[f])
    /\ \A e \in RangeOf(allLogs) : ~Blank(e.userName) /\ ~Blank(e.companyId)

----------------------------------------------------------------------------
(* Stream names and files: C26 *)

\* this step is a successful save that follows a successful save
SaveAfterSave ==
    /\ last.op = "save" /\ last.status = 200
    /\ last'.op = "save" /\ last'.status = 200
    /\ now' = now

\* C26 (as claimed): two saves that name different streams never write the
\* same file.
C26_DifferentNamesDifferentFiles ==
    [][(SaveAfterSave /\ last'.name # last.name) =>
          last'.fileName # last.fileName]_vars

\* C26 (amended): two saves whose stream names differ after every character
\* outside [a-zA-Z0-9_-] is replaced by '_' write different files, and the
\* later one leaves the file of the earlier one as it was; names that become
\* the same token address the same file.
C26_DifferentTokensDifferentFiles ==
    [][SaveAfterSave =>
          IF Sanitize(last'.name) = Sanitize(last.name)
          THEN last'.fileName = last.fileName
          ELSE /\ last'.fileName # last.fileName
               /\ last.fileName \in DOMAIN disk =>
                     /\ last.fileName \in DOMAIN disk'
                     /\ disk'[last.fileName] = disk[last.fileName]
      ]_vars

\* after saves under t and under t.b both files are there, each with the
\* content of its own stream
C26_Witness ==
    /\ SavedOk
    /\ last.name = <<"t", ".", "b">>
    /\ last.fileName = <<"t", "_", "b", ".", "j", "s", "o", "n">>
    /\ last.replaced = NoContent
    /\ <<"t", ".", "j", "s", "o", "n">> \in DOMAIN disk
    /\ disk[<<"t", ".", "j", "s", "o", "n">>] # disk[last.fileName]

----------------------------------------------------------------------------
(* Repeated sweeps: C24 *)

\* this step runs a sweep right after a sweep, at the same instant, on the
\* directory as the first one left it
SweepAfterSweep ==
    /\ lastSweep.ran
    /\ lastSweep'.ran
    /\ now' = now
    /\ lastSweep'.at = lastSweep.at
    /\ lastSweep'.before = disk

\* C24: a sweep that follows a sweep with the same cutoff and no write in
\* between deletes no file, reports deletedCount 0 and leaves the disk as the
\* first sweep left it.
C24_SweepIdempotent ==
    [][SweepAfterSweep =>
          /\ lastSweep'.deleted = <<>>
          /\ disk' = disk
          /\ last'.op = "cleanup" =>
                (last'.deletedCount = 0 /\ last'.deletedFiles = <<>>)
      ]_vars

\* the on-demand sweep at the instant of the startup sweep: the startup had
\* deleted s.json, the second sweep found o.json alone and left it
C24_Witness ==
    /\ last.op = "cleanup"
    /\ lastSweep.at = Now0
    /\ last.deletedCount = 0
    /\ DOMAIN lastSweep.before = {JsonName(<<"o">>)}
    /\ DOMAIN disk = {JsonName(<<"o">>)}

----------------------------------------------------------------------------
(* The index in the long run: C25 *)

\* this step is a successful save or upload
WriteStep ==
    /\ last'.op \in {"save", "upload"}
    /\ last'.status = 200
    /\ now' = now

\* C25: if from some point on no save and no upload occurs, and the 24-hour
\* timer keeps firing, then from some point on the index holds exactly the
\* entries of the files on disk, and stays so.
C25_IndexEventuallyConsistent ==
    (<>[][~WriteStep]_vars) => <>[](pc = "serving" /\ IndexMatchesDisk)

\* a firing of the timer that found the index differing from the files and
\* left it equal to them, entries remaining
C25_Witness ==
    /\ last.op = "scheduled"
    /\ last.stale
    /\ IndexMatchesDisk
    /\ Len(allLogs) > 0

----------------------------------------------------------------------------
(* Concurrent saves: C23 *)

BothAnswered == \A c \in Conns : conns[c].state = "answered"

\* what request c asked to be stored, and where
Payload(c) == DataToSave(conns[c].logData)

FileOf(c) == SaveFile(conns[c].fileName)

InWindow(c) == AllInWindow(Payload(c), now)

HoldsOwnPayload(c) == Exists(disk, FileOf(c)) /\ disk[FileOf(c)] = Payload(c)

\* the index holds every entry of both payloads
BothIndexed ==
    Len(allLogs) = Len(Payload(1).items) + Len(Payload(2).items)

\* C23 (as claimed): two concurrent save requests, their chunks arriving in
\* any order, are both handled whole; with the same stream name the file equals
\* exactly one of the two payloads, and with different stream names and
\* in-window timestamps each file holds its own payload.
C23_ConcurrentSavesAnyNames ==
    BothAnswered =>
        /\ \A c \in Conns : conns[c].status = 200
        /\ BothIndexed
        /\ conns[1].fileName = conns[2].fileName =>
              /\ Exists(disk, FileOf(1))
              /\ disk[FileOf(1)] \in {Payload(1), Payload(2)}
        /\ (conns[1].fileName # conns[2].fileName /\ InWindow(1) /\ InWindow(2)) =>
              HoldsOwnPayload(1) /\ HoldsOwnPayload(2)

\* C23 (amended): two concurrent save requests, their chunks arriving in any
\* order, are both answered 200 and both indexed; with in-window timestamps,
\* names that sanitize to the same file name leave that file equal to exactly
\* one of the two payloads, and names that sanitize to different file names
\* leave each file with its own payload.
C23_ConcurrentSavesAtomic ==
    BothAnswered =>
        /\ \A c \in Conns : conns[c].status = 200
        /\ BothIndexed
        /\ (FileOf(1) = FileOf(2) /\ InWindow(1) /\ InWindow(2)) =>
              /\ Exists(disk, FileOf(1))
              /\ disk[FileOf(1)] \in {Payload(1), Payload(2)}
        /\ (FileOf(1) # FileOf(2) /\ InWindow(1) /\ InWindow(2)) =>
              HoldsOwnPayload(1) /\ HoldsOwnPayload(2)

\* two saves to the same stream with different in-window payloads whose chunks
\* arrived interleaved; the file holds the payload of the second
C23_Witness ==
    /\ BothAnswered
    /\ conns[1].interleaved
    /\ conns[2].interleaved
    /\ conns[1].fileName = <<"t">>
    /\ conns[2].fileName = <<"t">>
    /\ conns[1].logData = ObjectOf(ERecent)
    /\ conns[2].logData = ObjectOf(ENewer)
    /\ disk[FileOf(1)] = Payload(2)
    /\ \A c \in Conns : conns[c].status = 200

----------------------------------------------------------------------------
(* The client's queue: C27 to C30 *)

\* this step is a queueAction call, a flushQueue call
EnqueueCall == calls'.enqueued = calls.enqueued + 1

FlushCall == calls'.flushes = calls.flushes + 1

\* the enqueue numbers of a sequence of entries
SeqsOf(entries) == [j \in DOMAIN entries |-> entries[j].seq]

\* how often entry n was handed to the transport, and how often it is queued
TimesHanded(n) ==
    Cardinality(UNION {{<<i, j>> : j \in {k \in DOMAIN transport[i].batch :
                                             transport[i].batch[k].seq = n}} :
                       i \in DOMAIN transport})

TimesQueued(n) == Cardinality({j \in DOMAIN queue : queue[j].seq = n})

\* C27: for every batchSize >= 1, the enqueue that makes the queue batchSize
\* long hands exactly one batch to the transport, holding the queued entries
\* and the new one in enqueue order, and leaves the queue empty; an enqueue
\* that leaves the queue shorter hands nothing over.
C27_SizeThresholdFlushesOnce ==
    [][EnqueueCall =>
          IF Len(queue) + 1 = batchSize
          THEN /\ Len(transport') = Len(transport) + 1
               /\ SubSeq(transport', 1, Len(transport)) = transport
               /\ Len(transport'[Len(transport')].batch) = batchSize
               /\ SubSeq(transport'[Len(transport')].batch, 1, Len(queue)) = queue
               /\ transport'[Len(transport')].batch[batchSize].seq = calls'.enqueued
               /\ queue' = <<>>
          ELSE /\ transport' = transport
               /\ Len(queue') = Len(queue) + 1
               /\ Len(queue') < batchSize
      ]_vars

\* from an empty queue, batchSize > 1 entries enqueued and nothing else done:
\* one batch with those entries in order, the queue empty
C27_Witness ==
    /\ batchSize > 1
    /\ calls.enqueued = batchSize
    /\ calls.flushes = 0
    /\ calls.firings = 0
    /\ Len(transport) = 1
    /\ SeqsOf(transport[1].batch) = [j \in 1..batchSize |-> j]
    /\ queue = <<>>

\* C28: a batch is handed to the transport only by the enqueue that makes the
\* queue batchSize long, by an explicit flushQueue(), or once batchTimeoutMs
\* have passed since the timer was armed; so fewer than batchSize enqueues
\* with no timeout elapsed and no explicit flush hand nothing over.
C28_NoEarlyFlush ==
    [][Len(transport') > Len(transport) =>
          \/ EnqueueCall /\ Len(queue) + 1 >= batchSize
          \/ FlushCall
          \/ timer.pending /\ clock >= timer.armedAt + BatchTimeoutMs
      ]_vars

\* batchSize - 1 entries queued, time passed but less than the timeout, no
\* explicit flush: nothing handed over
C28_Witness ==
    /\ calls.enqueued = batchSize - 1
    /\ calls.enqueued > 0
    /\ calls.flushes = 0
    /\ timer.pending
    /\ clock > timer.armedAt
    /\ clock < timer.armedAt + BatchTimeoutMs
    /\ Len(queue) = calls.enqueued
    /\ transport = <<>>

\* C29: every entry enqueued is either still queued, once, or was handed to
\* the transport in exactly one batch, whatever the order of enqueues, timer
\* firings, flushes and delivery outcomes; so an entry that a flush or a timer
\* firing followed is handed over exactly once.
C29_NoLossNoDuplication ==
    \A n \in 1..calls.enqueued : TimesHanded(n) + TimesQueued(n) = 1

\* an entry enqueued while the first batch was in flight, handed over in the
\* second batch after the first delivery failed
C29_Witness ==
    /\ Len(transport) = 2
    /\ transport[1].state = "rejected"
    /\ transport[2].batch[1].inFlight
    /\ queue = <<>>
    /\ \A n \in 1..calls.enqueued : TimesHanded(n) = 1

\* C30: flushQueue() on an empty queue hands nothing to the transport and
\* leaves queue and timer as they were; on a queue with entries it hands them
\* over as one batch, and a flushQueue() right after a flushQueue() hands over
\* nothing more.
C30_FlushIdempotent ==
    [][FlushCall =>
          /\ queue = <<>> => UNCHANGED <<queue, timer, transport>>
          /\ queue # <<>> =>
                transport' = Append(transport, [batch |-> queue, state |-> "inFlight"])
          /\ calls.last = "flush" => transport' = transport
      ]_vars

\* two entries queued, flushQueue() called twice in a row: one batch of two
C30_Witness ==
    /\ calls.last = "flush"
    /\ calls.again
    /\ calls.enqueued = 2
    /\ calls.flushes = 2
    /\ calls.firings = 0
    /\ Len(transport) = 1
    /\ Len(transport[1].batch) = 2
    /\ queue = <<>>
    /\ ~timer.pending

----------------------------------------------------------------------------
(* The client's timer and failed deliveries: C31 and C32 *)

\* C31: an enqueue that leaves the queue non-empty arms the timer when none
\* is pending and leaves a pending timer as it is; a timer is pending exactly
\* while entries are queued; every hand-over to the transport cancels it; no
\* entry stays queued beyond batchTimeoutMs after its timer was armed, and
\* with the timer firing when due every queued entry is handed over.
C31_TimerProtocol ==
    /\ [](timer.pending <=> queue # <<>>)
    /\ [](timer.pending => clock <= timer.armedAt + BatchTimeoutMs)
    /\ [][(EnqueueCall /\ queue' # <<>>) =>
             timer' = IF timer.pending THEN timer
                      ELSE [pending |-> TRUE, armedAt |-> clock]]_vars
    /\ [][Len(transport') > Len(transport) => ~timer'.pending]_vars
    /\ \A n \in 1..MaxEnqueued : (TimesQueued(n) = 1) ~> (TimesHanded(n) = 1)

\* two entries, the second enqueued while the timer of the first was pending,
\* handed over together by the timer batchTimeoutMs after it was armed
C31_Witness ==
    /\ calls.last = "timer"
    /\ calls.firings = 1
    /\ calls.flushes = 0
    /\ clock = BatchTimeoutMs
    /\ Len(transport) = 1
    /\ Len(transport[1].batch) = 2
    /\ transport[1].batch[1].timestamp = AutoStamp(0)
    /\ transport[1].batch[2].timestamp.t > 0
    /\ queue = <<>>
    /\ ~timer.pending

\* this step is the failure of a delivery
RejectedStep ==
    \E i \in DOMAIN transport :
        /\ i \in DOMAIN transport'
        /\ transport[i].state = "inFlight"
        /\ transport'[i].state = "rejected"

\* C32: the failure of a delivery marks the batch rejected and changes
\* nothing else: queue, timer and the list of batches handed over stay as
\* they were; no entry of a rejected batch is queued or handed over again,
\* and the queue holds only entries enqueued after every batch handed over.
C32_FailedBatchNotRequeued ==
    /\ [][RejectedStep =>
             /\ queue' = queue
             /\ timer' = timer
             /\ Len(transport') = Len(transport)
             /\ \A i \in DOMAIN transport : transport'[i].batch = transport[i].batch
         ]_vars
    /\ [](\A i \in DOMAIN transport :
             transport[i].state = "rejected" =>
                 \A k \in DOMAIN transport[i].batch :
                     /\ TimesQueued(transport[i].batch[k].seq) = 0
                     /\ TimesHanded(transport[i].batch[k].seq) = 1)
    /\ [](\A j \in DOMAIN queue : \A i \in DOMAIN transport :
             \A k \in DOMAIN transport[i].batch :
                 queue[j].seq > transport[i].batch[k].seq)

\* two flushes whose deliveries both failed, and the queue holding only the
\* entry enqueued since
C32_Witness ==
    /\ Len(transport) = 2
    /\ transport[1].state = "rejected"
    /\ transport[2].state = "rejected"
    /\ calls.flushes = 2
    /\ SeqsOf(queue) = <<3>>
    /\ queue[1].inFlight = FALSE

----------------------------------------------------------------------------
(* The order of the index: C33 *)

Parseable(e) == e.timestamp.k = "date"

\* C33: whenever the server answers, every two neighbours in the index that
\* both have a parseable timestamp are in descending order of time, also with
\* entries without a parseable timestamp elsewhere in the index.
C33_NeighboursDescending ==
    pc = "serving" =>
        \A i \in 1..(Len(allLogs) - 1) :
            (Parseable(allLogs[i]) /\ Parseable(allLogs[i + 1])) =>
                allLogs[i].timestamp.t >= allLogs[i + 1].timestamp.t

\* a save of an entry whose timestamp is not a date onto an index of two
\* dated entries: the dated neighbours stay newest first
C33_Witness ==
    /\ SavedOk
    /\ last.data = ObjectOf(Entry(GarbageTs, "click"))
    /\ Len(allLogs) = 3
    /\ allLogs[1].timestamp = DateTs(TNewer)
    /\ allLogs[2].timestamp = DateTs(TRecent)
    /\ allLogs[3].timestamp = GarbageTs


----------------------------------------------------------------------------
(* The dashboard's list after merges *)

NoTwoWithSameTimestamp(logs) ==
    \A i, j \in DOMAIN logs : i # j => logs[i].timestamp # logs[j].timestamp

RemergeAddsNothing ==
    \A i \in DOMAIN dashboard.responses :
        (ResponseArrives(i) /\ dashboard.responses[i] \in dashboard.merged)
            => dashboard'.allLogs = dashboard.allLogs

(* C34: starting from an empty list, after any sequence of fetches merged   *)
(* by mergeLogs the dashboard's allLogs holds no two entries with the same  *)
(* timestamp, and merging a response that was merged before adds nothing.   *)
C34_MergedOncePerTimestamp ==
    /\ [](NoTwoWithSameTimestamp(dashboard.allLogs))
    /\ [][RemergeAddsNothing]_vars

\* the second half alone: a response merged before adds nothing
RemergeNeverAdds == [][RemergeAddsNothing]_vars


----------------------------------------------------------------------------
(* The retention comparison at the cutoff *)

\* the times of the entries of a file, as new Date(entry.timestamp) reads them
TimesOf(content) ==
    {NewDate(e.timestamp).ms :
        e \in {x \in RangeOf(ItemsOf(content)) : NewDate(x.timestamp).valid}}

\* the file has a minimum timestamp, and it is m
MinimumTimestampIs(content, m) ==
    /\ m \in TimesOf(content)
    /\ \A t \in TimesOf(content) : m <= t

(* C35: a file whose minimum timestamp equals exactly now - 7 days at the   *)
(* instant of the sweep is retained by that sweep, and a sweep that deletes *)
(* a file runs at an instant strictly later than the file's minimum         *)
(* timestamp plus 7 days.                                                   *)
C35_StrictRetentionComparison ==
    lastSweep.ran =>
        \A f \in DOMAIN lastSweep.before :
            /\ MinimumTimestampIs(lastSweep.before[f], lastSweep.at - SevenDaysMs)
                    => /\ f \notin RangeOf(lastSweep.deleted)
                       /\ f \in DOMAIN disk
                       /\ disk[f] = lastSweep.before[f]
            /\ f \in RangeOf(lastSweep.deleted)
                    => \E m \in TimesOf(lastSweep.before[f]) :
                          /\ MinimumTimestampIs(lastSweep.before[f], m)
                          /\ lastSweep.at > m + SevenDaysMs

\* the file s.json, oldest entry exactly at the cutoff, was kept by the sweep
\* at startup and is deleted by the sweep asked for one second later
C35_Witness ==
    /\ lastSweep.ran
    /\ last.op = "cleanup"
    /\ lastSweep.at = Now0 + SecondMs
    /\ JsonName(<<"s">>) \in DOMAIN lastSweep.before
    /\ Len(ItemsOf(lastSweep.before[JsonName(<<"s">>)])) = 2
    /\ MinimumTimestampIs(lastSweep.before[JsonName(<<"s">>)], Cutoff0)
    /\ JsonName(<<"s">>) \in RangeOf(lastSweep.deleted)

\* the sweep at startup meets a file whose oldest entry is exactly at the cutoff
KeptAtCutoff ==
    /\ lastSweep.ran
    /\ last.op = "startup"
    /\ MinimumTimestampIs(lastSweep.before[JsonName(<<"s">>)], lastSweep.at - SevenDaysMs)
    /\ JsonName(<<"s">>) \in DOMAIN disk


----------------------------------------------------------------------------
(* Saves answered with an error *)

\* this step is a save request answered with an error status
SaveAnsweredError ==
    /\ last'.op = "save"
    /\ last' # last
    /\ last'.status \in {400, 500}

(* C36: a POST /api/logs/save that answers with an error status (400 or     *)
(* 500) leaves the state as it was before the request: no file created or   *)
(* overwritten and the index unchanged, including when logData is an array  *)
(* containing a null element or the string 'null'.                          *)
C36_ErrorLeavesStateUnchanged ==
    [][SaveAnsweredError => (disk' = disk /\ allLogs' = allLogs)]_vars

\* the part for the status 400 alone
RejectionLeavesStateUnchanged ==
    [][(SaveAnsweredError /\ last'.status = 400)
            => (disk' = disk /\ allLogs' = allLogs)]_vars

\* a save answered 500 after it wrote its file
SavedThenFailed ==
    /\ last.op = "save"
    /\ last.status = 500
    /\ SaveFile(last.name) \in DOMAIN disk
    /\ disk[SaveFile(last.name)] = DataToSave(last.data)


----------------------------------------------------------------------------
(* Reading a file under the name it was saved under *)

\* the save answered last succeeded and its entries are all in the window
SavedInWindow == SavedOk /\ AllInWindow(DataToSave(last.data), lastSweep.at)

\* GET /api/logs/<name> answers the content of the file the save wrote
ReadableAsSaved(name) ==
    /\ Exists(disk, SaveFile(name))
    /\ GetFileResponse(disk, name).op = "getFile"
    /\ GetFileResponse(disk, name).status = 200
    /\ GetFileResponse(disk, name).content = disk[SaveFile(name)]

----------------------------------------------------------------------------
(* The files of the uploads *)

\* this step is an upload answered with success
UploadedOk ==
    /\ last'.op = "upload"
    /\ last'.status = 200
    /\ now' = now
    /\ allLogs' # allLogs

(* C38: each successful upload persists its entries in a file of its own:   *)
(* the file a successful POST /api/logs/upload writes was not there before, *)
(* so no upload overwrites the file of an earlier upload, even when both    *)
(* are handled within the same clock millisecond.                           *)
C38_UploadWritesNewFile ==
    [][UploadedOk => ~Exists(disk, last'.fileName)]_vars

====
